---------------------------- MODULE Spec2Model ----------------------------
(***************************************************************************)
(* DRIFT, the time-dilation arena shooter: a model of the Game class.      *)
(*                                                                         *)
(* Units (the source computes in floating point; the model in fixed        *)
(* point):                                                                 *)
(*   real time (dt, timers, player cooldowns)      milliseconds            *)
(*   dilated time (gameDt, lifetimes, shoot timers) microseconds           *)
(*   timeScale, unit vectors, lerp factors          thousandths            *)
(*   lengths                                        1/100 arena unit       *)
(*   velocities                                     1/100 unit per second  *)
(*   angles                                         1/1000 radian          *)
(*   health and damage                              1/4 health point       *)
(*   score                                          1/2 point              *)
(* Math.random() is a nondeterministic choice from the sets a              *)
(* specification passes in its environment record; Date.now() is the       *)
(* variable now.                                                           *)
(***************************************************************************)
EXTENDS Integers, Sequences, FiniteSets, TLC

VARIABLES
    player,              \* this.player
    timeScale,           \* this.timeScale
    targetTimeScale,     \* this.targetTimeScale
    mouseVelocity,       \* this.mouseVelocity
    mouseHistory,        \* this.mouseHistory: <<[velocity, age]>>
    isRunning,           \* this.isRunning
    isSelectingUpgrade,  \* this.isSelectingUpgrade
    score, kills, wave,  \* this.score, this.kills, this.wave
    enemies,             \* this.enemies
    bullets,             \* this.bullets (player bullets)
    enemyBullets,        \* this.enemyBullets
    particles,           \* this.particles: remaining life of each
    pickups,             \* this.pickups
    sniperBeams,         \* this.sniperBeams: remaining life of each
    keys,                \* this.keys: the codes held down
    mouseDown,           \* this.mouseDown
    shootCooldown,       \* this.shootCooldown
    acquiredUpgrades,    \* this.acquiredUpgrades
    offered,             \* the upgrade cards on the upgrade screen
    timers,              \* pending setTimeout callbacks, in the order set
    frame,               \* the pending requestAnimationFrame callback
    screen,              \* which overlay is shown: start, none, gameover
    nextId,              \* identity of the next object created
    now,                 \* Date.now(), in milliseconds from the page's load
    log,                 \* history: what the last handler did
    hist,                \* history: counters over the whole run
    session              \* how the session runs: the frame gap, the draws
                         \* spawnEnemy gets, the inputs still to come

vars == <<player, timeScale, targetTimeScale, mouseVelocity, mouseHistory,
          isRunning, isSelectingUpgrade, score, kills, wave, enemies, bullets,
          enemyBullets, particles, pickups, sniperBeams, keys, mouseDown,
          shootCooldown, acquiredUpgrades, offered, timers, frame, screen,
          nextId, now, log, hist, session>>

-----------------------------------------------------------------------------
(* Fixed-point arithmetic *)

\* Division truncating toward zero, as a float product cut to the grid.
Div(a, b) ==
    IF a >= 0 THEN a \div b ELSE -((-a) \div b)

Min(a, b) == IF a <= b THEN a ELSE b

Max(a, b) == IF a >= b THEN a ELSE b

Abs(a) == IF a >= 0 THEN a ELSE -a

RECURSIVE SqrtIter(_, _)
SqrtIter(n, x) ==
    LET y == (x + n \div x) \div 2
    IN  IF y >= x THEN x ELSE SqrtIter(n, y)

\* Math.sqrt, floored
ISqrt(n) == IF n <= 0 THEN 0 ELSE SqrtIter(n, n)

RECURSIVE SeqSum(_)
SeqSum(q) == IF q = <<>> THEN 0 ELSE Head(q) + SeqSum(Tail(q))

\* Array.prototype.splice(i, 1)
Splice(q, i) == SubSeq(q, 1, i - 1) \o SubSeq(q, i + 1, Len(q))

-----------------------------------------------------------------------------
(* THREE.Vector3 *)

Vec(x, y, z) == [x |-> x, y |-> y, z |-> z]

Zero3 == Vec(0, 0, 0)

VAdd(a, b) == Vec(a.x + b.x, a.y + b.y, a.z + b.z)

VSub(a, b) == Vec(a.x - b.x, a.y - b.y, a.z - b.z)

\* multiplyScalar by k/den
VScale(a, k, den) == Vec(Div(a.x * k, den), Div(a.y * k, den), Div(a.z * k, den))

VLenSq(a) == a.x * a.x + a.y * a.y + a.z * a.z

VLength(a) == ISqrt(VLenSq(a))

\* a.distanceTo(b) < r, compared on the squares
Within(a, b, r) == VLenSq(VSub(a, b)) < r * r

\* the power of ten that brings a vector's largest component near 20000,
\* so that its length keeps four digits
PreScale(a) ==
    LET m == Max(Abs(a.x), Max(Abs(a.y), Abs(a.z)))
    IN  IF m * 1000 <= 20000 THEN 1000
        ELSE IF m * 100 <= 20000 THEN 100
        ELSE IF m * 10 <= 20000 THEN 10 ELSE 1

\* normalize(): a unit vector in thousandths; the zero vector stays zero
Normalize(a) ==
    LET Unit(b, l) == IF l = 0 THEN Zero3 ELSE VScale(b, 1000, l)
        Scaled(b) == Unit(b, VLength(b))
        By(k) == Scaled(Vec(a.x * k, a.y * k, a.z * k))
    IN  By(PreScale(a))

\* v.lerp(target, alpha), alpha in thousandths
VLerp(v, t, alpha) == VAdd(v, VScale(VSub(t, v), alpha, 1000))

\* PI, in 1/1000 radian
Pi == 3142

\* an angle brought into [-PI, PI]
WrapAngle(a) ==
    LET m == (a + Pi) % (2 * Pi)
    IN  m - Pi

\* the sine series x - x^3/6 + x^5/120 - x^7/5040, for |x| <= PI/2
SinSeries(x) ==
    LET Times(p, x2) == Div(p * x2, 1000)
        From5(x2, x3, x5) ==
            x - Div(x3, 6) + Div(x5, 120) - Div(Times(x5, x2), 5040)
        From3(x2, x3) == From5(x2, x3, Times(x3, x2))
        From2(x2) == From3(x2, Times(x, x2))
    IN  From2(Div(x * x, 1000))

\* Math.sin and Math.cos, in thousandths, of an angle in 1/1000 radian
Sin(a) ==
    LET Fold(w) == IF w > Pi \div 2 THEN Pi - w
                   ELSE IF w < -(Pi \div 2) THEN -Pi - w
                   ELSE w
    IN  SinSeries(Fold(WrapAngle(a)))

Cos(a) == Sin(a + Pi \div 2)

\* v.applyAxisAngle(new THREE.Vector3(0, 1, 0), a)
RotateY(v, a) ==
    LET By(cos, sin) == Vec(Div(v.x * cos + v.z * sin, 1000), v.y,
                            Div(v.z * cos - v.x * sin, 1000))
    IN  By(Cos(a), Sin(a))

\* v.applyAxisAngle(new THREE.Vector3(1, 0, 0), a)
RotateX(v, a) ==
    LET By(cos, sin) == Vec(v.x, Div(v.y * cos - v.z * sin, 1000),
                            Div(v.z * cos + v.y * sin, 1000))
    IN  By(Cos(a), Sin(a))

\* v.applyEuler(rotation), order YXZ: pitch first, then yaw
ApplyEuler(v, rot) == RotateY(RotateX(v, rot.x), rot.y)

-----------------------------------------------------------------------------
(* The state the handlers work on: one record of all the fields, so that a  *)
(* handler and everything it calls is one function from state to state.     *)

Cur ==
    [player |-> player, timeScale |-> timeScale,
     targetTimeScale |-> targetTimeScale, mouseVelocity |-> mouseVelocity,
     mouseHistory |-> mouseHistory, isRunning |-> isRunning,
     isSelectingUpgrade |-> isSelectingUpgrade, score |-> score,
     kills |-> kills, wave |-> wave, enemies |-> enemies, bullets |-> bullets,
     enemyBullets |-> enemyBullets, particles |-> particles,
     pickups |-> pickups, sniperBeams |-> sniperBeams, keys |-> keys,
     mouseDown |-> mouseDown, shootCooldown |-> shootCooldown,
     acquiredUpgrades |-> acquiredUpgrades, offered |-> offered,
     timers |-> timers, frame |-> frame, screen |-> screen,
     nextId |-> nextId, now |-> now, log |-> <<>>, hist |-> hist]

Commit(s) ==
    /\ player' = s.player
    /\ timeScale' = s.timeScale
    /\ targetTimeScale' = s.targetTimeScale
    /\ mouseVelocity' = s.mouseVelocity
    /\ mouseHistory' = s.mouseHistory
    /\ isRunning' = s.isRunning
    /\ isSelectingUpgrade' = s.isSelectingUpgrade
    /\ score' = s.score
    /\ kills' = s.kills
    /\ wave' = s.wave
    /\ enemies' = s.enemies
    /\ bullets' = s.bullets
    /\ enemyBullets' = s.enemyBullets
    /\ particles' = s.particles
    /\ pickups' = s.pickups
    /\ sniperBeams' = s.sniperBeams
    /\ keys' = s.keys
    /\ mouseDown' = s.mouseDown
    /\ shootCooldown' = s.shootCooldown
    /\ acquiredUpgrades' = s.acquiredUpgrades
    /\ offered' = s.offered
    /\ timers' = s.timers
    /\ frame' = s.frame
    /\ screen' = s.screen
    /\ nextId' = s.nextId
    /\ now' = s.now
    /\ log' = s.log
    /\ hist' = s.hist

\* the fields are those of record s
Is(s) ==
    /\ player = s.player
    /\ timeScale = s.timeScale
    /\ targetTimeScale = s.targetTimeScale
    /\ mouseVelocity = s.mouseVelocity
    /\ mouseHistory = s.mouseHistory
    /\ isRunning = s.isRunning
    /\ isSelectingUpgrade = s.isSelectingUpgrade
    /\ score = s.score
    /\ kills = s.kills
    /\ wave = s.wave
    /\ enemies = s.enemies
    /\ bullets = s.bullets
    /\ enemyBullets = s.enemyBullets
    /\ particles = s.particles
    /\ pickups = s.pickups
    /\ sniperBeams = s.sniperBeams
    /\ keys = s.keys
    /\ mouseDown = s.mouseDown
    /\ shootCooldown = s.shootCooldown
    /\ acquiredUpgrades = s.acquiredUpgrades
    /\ offered = s.offered
    /\ timers = s.timers
    /\ frame = s.frame
    /\ screen = s.screen
    /\ nextId = s.nextId
    /\ now = s.now
    /\ log = s.log
    /\ hist = s.hist

\* history: one more event of the running handler
Note(s, e) == [s EXCEPT !.log = Append(@, e)]

\* setTimeout(callback, delay): kind names the callback, a and b what it closes over
SetTimeout(s, kind, delay, a, b) ==
    [s EXCEPT !.timers = Append(@, [kind |-> kind, delay |-> delay, a |-> a, b |-> b])]

-----------------------------------------------------------------------------
(* constructor *)

PlayerInit ==
    [position |-> Vec(0, 160, 0), velocity |-> Zero3,
     rotation |-> [x |-> 0, y |-> 0],
     health |-> 400, maxHealth |-> 400,
     canDash |-> TRUE, dashCooldown |-> 0, dashCooldownMax |-> 2000,
     isDashing |-> FALSE, dashVelocity |-> Zero3,
     damage |-> 100, fireRate |-> 150, bulletCount |-> 1, bulletSpread |-> 0,
     piercing |-> FALSE, seekerRounds |-> FALSE, minTimeScale |-> 100,
     scoreMultiplier |-> 2, pickupRange |-> 150,
     timeShield |-> FALSE, timeShieldActive |-> FALSE]

HistInit ==
    [spawnWaves |-> 0, advances |-> <<>>, spawned |-> <<>>, sizes |-> <<>>,
     gameOvers |-> 0,
     restarts |-> 0, restartBatch |-> 0, ticks |-> 0, sinceDash |-> 0,
     dashStarted |-> 0,
     dashRun |-> 0, clockSinceDash |-> 0,
     lowest |-> 1000, armings |-> 0, sinceArmed |-> 0]

NoFrame == [pending |-> FALSE, delay |-> 0, gap |-> 0]

GameInit ==
    [player |-> PlayerInit, timeScale |-> 1000, targetTimeScale |-> 1000,
     mouseVelocity |-> 0, mouseHistory |-> <<>>, isRunning |-> FALSE,
     isSelectingUpgrade |-> FALSE, score |-> 0, kills |-> 0, wave |-> 1,
     enemies |-> <<>>, bullets |-> <<>>, enemyBullets |-> <<>>,
     particles |-> <<>>, pickups |-> <<>>, sniperBeams |-> <<>>,
     keys |-> {}, mouseDown |-> FALSE, shootCooldown |-> 0,
     acquiredUpgrades |-> <<>>, offered |-> <<>>, timers |-> <<>>,
     frame |-> NoFrame, screen |-> "start", nextId |-> 1, now |-> 0,
     log |-> <<>>, hist |-> HistInit]

arenaSize == 4000

-----------------------------------------------------------------------------
(* initUpgrades *)

UpgradeIds ==
    <<"shotgun", "piercing", "seeker", "rapidfire", "heavycaliber",
      "bullettime", "quickdash", "shield", "timeshield", "magnet", "scoremult">>

\* upgrade.apply(player)
ApplyUpgrade(p, id) ==
    CASE id = "shotgun" ->
            [p EXCEPT !.bulletCount = 7, !.bulletSpread = 150, !.fireRate = 400]
      [] id = "piercing" -> [p EXCEPT !.piercing = TRUE]
      [] id = "seeker" -> [p EXCEPT !.seekerRounds = TRUE]
      [] id = "rapidfire" ->
            [p EXCEPT !.fireRate = Div(@ * 5, 10), !.damage = Div(@ * 7, 10)]
      [] id = "heavycaliber" ->
            [p EXCEPT !.damage = Div(@ * 15, 10), !.fireRate = Div(@ * 14, 10)]
      [] id = "bullettime" -> [p EXCEPT !.minTimeScale = 50]
      [] id = "quickdash" -> [p EXCEPT !.dashCooldownMax = 1200]
      [] id = "shield" ->
            [p EXCEPT !.maxHealth = @ + 200, !.health = p.maxHealth + 200]
      [] id = "timeshield" -> [p EXCEPT !.timeShield = TRUE]
      [] id = "magnet" -> [p EXCEPT !.pickupRange = 400]
      [] id = "scoremult" -> [p EXCEPT !.scoreMultiplier = Div(@ * 15, 10)]

-----------------------------------------------------------------------------
(* createParticle, gameOver, playerHit *)

createParticle(s, life) ==
    IF Len(s.particles) > 150 THEN s
    ELSE [s EXCEPT !.particles = Append(@, life)]

\* n calls of createParticle in a row; past the cap they all return at once
RECURSIVE createParticles(_, _, _)
createParticles(s, n, life) ==
    IF n = 0 \/ Len(s.particles) > 150 THEN s
    ELSE createParticles(createParticle(s, life), n - 1, life)

gameOver(s) ==
    Note([s EXCEPT !.isRunning = FALSE, !.screen = "gameover",
                   !.hist.gameOvers = @ + 1],
         [ev |-> "gameOver", score |-> s.score])

\* a variant of playerHit that ends the game only below zero health; C4
\* does not hold of it
playerHitBelowZero(s, damage) ==
    IF s.player.timeShieldActive THEN s
    ELSE LET Ended(s1) == IF s1.player.health < 0 THEN gameOver(s1) ELSE s1
             Hurt(s0) == Ended(Note(s0, [ev |-> "playerHit",
                                         damage |-> damage,
                                         before |-> s.player.health,
                                         after |-> s0.player.health]))
         IN  Hurt([s EXCEPT !.player.health = @ - damage])

playerHit(s, damage) ==
    IF s.player.timeShieldActive THEN s
    ELSE LET Ended(s1) == IF s1.player.health <= 0 THEN gameOver(s1) ELSE s1
             Hurt(s0) == Ended(Note(s0, [ev |-> "playerHit",
                                         damage |-> damage,
                                         before |-> s.player.health,
                                         after |-> s0.player.health]))
         IN  Hurt([s EXCEPT !.player.health = @ - damage])

-----------------------------------------------------------------------------
(* tryDash, createDashTrail *)

\* the direction the held movement keys ask for
KeyDir(k) ==
    Vec((IF "KeyD" \in k THEN 1 ELSE 0) - (IF "KeyA" \in k THEN 1 ELSE 0), 0,
        (IF "KeyS" \in k THEN 1 ELSE 0) - (IF "KeyW" \in k THEN 1 ELSE 0))

RECURSIVE createDashTrail(_, _)
createDashTrail(s, i) ==
    IF i >= 10 THEN s
    ELSE createDashTrail(SetTimeout(s, "dashTrail", i * 15, 0, 0), i + 1)

\* a variant of tryDash without the early return on canDash; C5 does not
\* hold of it
tryDashAnyway(s) ==
    LET d0 == KeyDir(s.keys)
        d1 == IF VLength(d0) = 0 THEN Vec(0, 0, -1) ELSE d0
        dir == RotateY(Normalize(d1), s.player.rotation.y)
        s1 == [s EXCEPT !.player.isDashing = TRUE,
                        !.player.dashVelocity = VScale(dir, 5000, 1000),
                        !.player.canDash = FALSE,
                        !.player.dashCooldown = s.player.dashCooldownMax,
                        !.hist.sinceDash = 0,
                        !.hist.clockSinceDash = 0,
                        !.hist.dashRun = s.hist.restarts,
                        !.hist.dashStarted = s.player.dashCooldownMax]
        s2 == Note(createDashTrail(s1, 0), [ev |-> "dash"])
    IN  SetTimeout(s2, "dashEnd", 150, 0, 0)

\* a variant of tryDash that normalizes the key direction as it is, also
\* when it is zero; C34 does not hold of it
tryDashUnguarded(s) ==
    IF ~s.player.canDash THEN s
    ELSE LET d0 == KeyDir(s.keys)
             d1 == d0
             dir == RotateY(Normalize(d1), s.player.rotation.y)
             s1 == [s EXCEPT !.player.isDashing = TRUE,
                             !.player.dashVelocity = VScale(dir, 5000, 1000),
                             !.player.canDash = FALSE,
                             !.player.dashCooldown = s.player.dashCooldownMax,
                             !.hist.sinceDash = 0,
                             !.hist.clockSinceDash = 0,
                             !.hist.dashRun = s.hist.restarts,
                             !.hist.dashStarted = s.player.dashCooldownMax]
             s2 == Note(createDashTrail(s1, 0), [ev |-> "dash"])
         IN  SetTimeout(s2, "dashEnd", 150, 0, 0)

tryDash(s) ==
    IF ~s.player.canDash THEN s
    ELSE LET d0 == KeyDir(s.keys)
             d1 == IF VLength(d0) = 0 THEN Vec(0, 0, -1) ELSE d0
             dir == RotateY(Normalize(d1), s.player.rotation.y)
             s1 == [s EXCEPT !.player.isDashing = TRUE,
                             !.player.dashVelocity = VScale(dir, 5000, 1000),
                             !.player.canDash = FALSE,
                             !.player.dashCooldown = s.player.dashCooldownMax,
                             !.hist.sinceDash = 0,
                             !.hist.clockSinceDash = 0,
                             !.hist.dashRun = s.hist.restarts,
                             !.hist.dashStarted = s.player.dashCooldownMax]
             s2 == Note(createDashTrail(s1, 0), [ev |-> "dash"])
         IN  SetTimeout(s2, "dashEnd", 150, 0, 0)

-----------------------------------------------------------------------------
(* spawnWave, spawnEnemy, createSpawnEffect *)

RECURSIVE SpawnTimers(_, _, _, _)
SpawnTimers(s, i, enemyCount, batch) ==
    IF i >= enemyCount THEN s
    ELSE SpawnTimers(SetTimeout(s, "spawnEnemy", i * 400, batch, 0),
                     i + 1, enemyCount, batch)

\* a variant of spawnWave that sets one timer fewer; C2 does not hold of it
spawnWaveShort(s) ==
    LET enemyCount == 3 + s.wave * 2
        batch == s.hist.spawnWaves + 1
        s1 == [s EXCEPT !.hist.spawnWaves = batch,
                        !.hist.spawned = Append(@, 0),
                        !.hist.sizes = Append(@, s.wave),
                        !.hist.advances = Append(@, 0)]
    IN  SpawnTimers(Note(s1, [ev |-> "spawnWave", wave |-> s.wave]),
                    1, enemyCount, batch)

\* history kept per call: hist.spawned and hist.advances get an entry for
\* the batch, hist.sizes the wave counter the call read
spawnWave(s) ==
    LET enemyCount == 3 + s.wave * 2
        batch == s.hist.spawnWaves + 1
        s1 == [s EXCEPT !.hist.spawnWaves = batch,
                        !.hist.spawned = Append(@, 0),
                        !.hist.sizes = Append(@, s.wave),
                        !.hist.advances = Append(@, 0)]
    IN  SpawnTimers(Note(s1, [ev |-> "spawnWave", wave |-> s.wave]),
                    0, enemyCount, batch)

enemyConfig(type) ==
    CASE type = "basic" ->
            [health |-> 120, speed |-> 500, shootRate |-> 900000,
             bulletSpeed |-> 1800, pattern |-> "spread"]
      [] type = "fast" ->
            [health |-> 80, speed |-> 1200, shootRate |-> 600000,
             bulletSpeed |-> 2200, pattern |-> "burst"]
      [] type = "heavy" ->
            [health |-> 400, speed |-> 300, shootRate |-> 2000000,
             bulletSpeed |-> 1400, pattern |-> "ring"]
      [] type = "sniper" ->
            [health |-> 100, speed |-> 200, shootRate |-> 2500000,
             bulletSpeed |-> 0, pattern |-> "lightning"]

\* a variant of SpawnTypes that lets heavy enemies in from wave 2; C28 does
\* not hold of it
SpawnTypesEarly(w) ==
    <<"basic">> \o (IF w >= 2 THEN <<"fast">> ELSE <<>>)
                \o (IF w >= 2 THEN <<"heavy">> ELSE <<>>)
                \o (IF w >= 5 THEN <<"sniper">> ELSE <<>>)

\* the types array spawnEnemy builds from the wave counter
SpawnTypes(w) ==
    <<"basic">> \o (IF w >= 2 THEN <<"fast">> ELSE <<>>)
                \o (IF w >= 3 THEN <<"heavy">> ELSE <<>>)
                \o (IF w >= 5 THEN <<"sniper">> ELSE <<>>)

\* the do-while of spawnEnemy keeps a point only if it is 15 or more from
\* the player (in x and z)
SpawnPointOk(s, x, z) ==
    ~((x - s.player.position.x) * (x - s.player.position.x)
      + (z - s.player.position.z) * (z - s.player.position.z) < 1500 * 1500)

createSpawnEffect(s) == createParticles(s, 8, 400000)

\* the do-while draws points until one passes: of the draws q, the first
\* that does
SpawnDraw(s, q) ==
    q[CHOOSE k \in 1..Len(q) :
        /\ SpawnPointOk(s, q[k].x, q[k].z)
        /\ \A m \in 1..(k - 1) : ~SpawnPointOk(s, q[m].x, q[m].z)]

\* r: the values Math.random() returned: the point (x, z) the do-while ended
\* on, and in thousandths the draw that picks the type (t) and the fraction
\* of shootRate (frac); and the id three.js gave the mesh, as the angle it
\* adds to the enemy's wander (mesh)
spawnEnemy(s, batch, r) ==
    LET types == SpawnTypes(s.wave)
        type == types[(r.t * Len(types)) \div 1000 + 1]
        config == enemyConfig(type)
        enemy == [id |-> s.nextId, type |-> type,
                  position |-> Vec(r.x, 150, r.z),
                  health |-> config.health, maxHealth |-> config.health,
                  speed |-> config.speed, shootRate |-> config.shootRate,
                  bulletSpeed |-> config.bulletSpeed,
                  pattern |-> config.pattern,
                  shootTimer |-> (config.shootRate \div 1000) * r.frac,
                  velocity |-> Zero3, telegraphLine |-> FALSE,
                  telegraphTime |-> 0, isTelegraphing |-> FALSE,
                  telegraphDirection |-> Zero3, mesh |-> r.mesh,
                  batch |-> batch]
        s1 == [s EXCEPT !.enemies = Append(@, enemy), !.nextId = @ + 1,
                        !.hist.spawned[batch] = @ + 1]
    IN  createSpawnEffect(Note(s1, [ev |-> "spawnEnemy", type |-> type,
                                    wave |-> s.wave, batch |-> batch]))

-----------------------------------------------------------------------------
(* createBullet, shoot *)

createBullet(s, position, velocity, isEnemy, bulletType) ==
    LET bullet == [id |-> s.nextId, position |-> position,
                   velocity |-> velocity, life |-> 5000000,
                   isEnemy |-> isEnemy, bulletType |-> bulletType,
                   homingStrength |-> 0, homingDelay |-> 0,
                   homingActivated |-> FALSE, canBeShot |-> FALSE,
                   damage |-> IF isEnemy THEN 40 ELSE s.player.damage,
                   piercing |-> FALSE, angle |-> 0]
    IN  CASE bulletType = "gentle_homing" ->
                [bullet EXCEPT !.homingStrength = 100, !.homingActivated = TRUE]
          [] bulletType = "aggressive_homing" ->
                [bullet EXCEPT !.homingStrength = 400, !.homingActivated = TRUE,
                               !.canBeShot = TRUE]
          [] bulletType = "delayed_homing" ->
                [bullet EXCEPT !.homingStrength = 500, !.homingDelay = 800000,
                               !.homingActivated = FALSE]
          [] bulletType = "seeker" ->
                [bullet EXCEPT !.homingStrength = 150, !.homingActivated = TRUE]
          [] OTHER -> bullet

\* a variant of SpreadAngle that fans the pellets out from the aim to one
\* side; C10 does not hold of it
SpreadAngleOneSided(p, i) == i * p.bulletSpread

\* the spread angle of pellet i: (i - (bulletCount - 1) / 2) * bulletSpread
SpreadAngle(p, i) == Div((2 * i - (p.bulletCount - 1)) * p.bulletSpread, 2)

RECURSIVE ShootLoop(_, _, _, _)
ShootLoop(s, i, direction, startPos) ==
    IF i >= s.player.bulletCount THEN s
    ELSE LET bulletType == IF s.player.seekerRounds THEN "seeker" ELSE "standard"
             Bullet(spreadAngle, bulletDir) ==
                 [createBullet(s, startPos, VScale(bulletDir, 6000, 1000),
                               FALSE, bulletType)
                    EXCEPT !.piercing = s.player.piercing,
                           !.angle = spreadAngle]
             Turned(spreadAngle) ==
                 Bullet(spreadAngle,
                        IF s.player.bulletSpread > 0
                        THEN RotateY(direction, spreadAngle) ELSE direction)
             bullet == Turned(IF s.player.bulletSpread > 0
                              THEN SpreadAngle(s.player, i) ELSE 0)
         IN  ShootLoop([s EXCEPT !.bullets = Append(@, bullet), !.nextId = @ + 1],
                       i + 1, direction, startPos)

shoot(s) ==
    IF s.shootCooldown > 0 THEN s
    ELSE LET \* s1: the state after the loop; s2: with the cooldown set
             Flash(s1, s2) ==
                 createParticle(
                     Note(s2, [ev |-> "shoot", first |-> s.nextId,
                               added |-> Len(s1.bullets) - Len(s.bullets),
                               angles |-> [k \in 1..(Len(s1.bullets) - Len(s.bullets))
                                             |-> s1.bullets[Len(s.bullets) + k].angle],
                               cooldown |-> s2.shootCooldown]),
                     100000)
             Cooled(s1) ==
                 Flash(s1, [s1 EXCEPT !.shootCooldown = s.player.fireRate])
             Along(direction) ==
                 Cooled(ShootLoop(s, 0, direction,
                                  VAdd(s.player.position,
                                       VScale(direction, 50, 1000))))
         IN  Along(ApplyEuler(Vec(0, 0, -1000), s.player.rotation))

-----------------------------------------------------------------------------
(* The enemy attack patterns.  r holds what Math.random() and Date.now()    *)
(* gave the handler: every call of one handler run reads the same record.   *)

EnemyIndex(s, id) ==
    IF \E k \in 1..Len(s.enemies) : s.enemies[k].id = id
    THEN CHOOSE k \in 1..Len(s.enemies) : s.enemies[k].id = id
    ELSE 0

PushEnemyBullet(s, b) ==
    Note([s EXCEPT !.enemyBullets = Append(@, b), !.nextId = @ + 1],
         [ev |-> "enemyBullet", id |-> b.id, bulletType |-> b.bulletType])

\* dir.x += (Math.random() - 0.5) * w; dir.z += ...; dir.normalize()
Jitter(dir, r) == Normalize(Vec(dir.x + r.jx, dir.y, dir.z + r.jz))

RECURSIVE shootSpreadLoop(_, _, _, _, _)
shootSpreadLoop(s, enemy, direction, i, r) ==
    IF i > 1 THEN s
    ELSE LET dir == Jitter(RotateY(direction, i * 200), r)
             bulletType == IF i = 0 /\ r.gentle THEN "gentle_homing"
                           ELSE "standard"
             bullet == createBullet(s, enemy.position,
                                    VScale(dir, enemy.bulletSpeed, 1000),
                                    TRUE, bulletType)
         IN  shootSpreadLoop(PushEnemyBullet(s, bullet), enemy, direction,
                             i + 1, r)

shootSpread(s, enemy, direction, r) ==
    shootSpreadLoop(s, enemy, direction, -1, r)

\* the five setTimeout calls of shootBurst; each closes over the enemy, the
\* direction and its index
RECURSIVE shootBurst(_, _, _, _)
shootBurst(s, enemy, direction, i) ==
    IF i >= 5 THEN s
    ELSE shootBurst(SetTimeout(s, "burst", Div(i * 80 * s.timeScale, 1000),
                               enemy.id, [i |-> i, direction |-> direction]),
                    enemy, direction, i + 1)

\* a variant of BurstStep whose fourth bullet is delayed_homing as well; C18
\* does not hold of it
BurstStepEarlyHoming(s, id, c, r) ==
    LET k == EnemyIndex(s, id)
    IN  IF k = 0 THEN Note(s, [ev |-> "burstSkipped", enemy |-> id, i |-> c.i])
        ELSE LET enemy == s.enemies[k]
                 dir == Jitter(c.direction, r)
                 bulletType == IF c.i >= 3 THEN "delayed_homing" ELSE "standard"
                 bullet == createBullet(s, enemy.position,
                                        VScale(dir, enemy.bulletSpeed, 1000),
                                        TRUE, bulletType)
             IN  PushEnemyBullet(s, bullet)


\* the callback of one burst timer
BurstStep(s, id, c, r) ==
    LET k == EnemyIndex(s, id)
    IN  IF k = 0 THEN Note(s, [ev |-> "burstSkipped", enemy |-> id, i |-> c.i])
        ELSE LET enemy == s.enemies[k]
                 dir == Jitter(c.direction, r)
                 bulletType == IF c.i = 4 THEN "delayed_homing" ELSE "standard"
                 bullet == createBullet(s, enemy.position,
                                        VScale(dir, enemy.bulletSpeed, 1000),
                                        TRUE, bulletType)
             IN  PushEnemyBullet(s, bullet)

\* (cos, 0, sin) of (i / 6) * 2 * PI
RingDir(i) ==
    CASE i = 0 -> Vec(1000, 0, 0) [] i = 1 -> Vec(500, 0, 866)
      [] i = 2 -> Vec(-500, 0, 866) [] i = 3 -> Vec(-1000, 0, 0)
      [] i = 4 -> Vec(-500, 0, -866) [] i = 5 -> Vec(500, 0, -866)

RECURSIVE shootRingLoop(_, _, _)
shootRingLoop(s, enemy, i) ==
    IF i >= 6 THEN s
    ELSE LET bullet == createBullet(s, enemy.position,
                                    VScale(RingDir(i), enemy.bulletSpeed, 1000),
                                    TRUE, "standard")
         IN  shootRingLoop(PushEnemyBullet(s, bullet), enemy, i + 1)

shootRing(s, enemy) ==
    LET toPlayer == Normalize(VSub(s.player.position, enemy.position))
        \* s1: the state after the ring
        Homing(s1) ==
            PushEnemyBullet(s1, createBullet(s1, enemy.position,
                                             VScale(toPlayer,
                                                    Div(enemy.bulletSpeed * 8, 10),
                                                    1000),
                                             TRUE, "aggressive_homing"))
    IN  createParticles(Homing(shootRingLoop(s, enemy, 0)), 5, 300000)

\* direction.multiplyScalar(100) scales the vector in place before it is
\* cloned into telegraphDirection
startSniperTelegraph(s, k) ==
    LET enemy == s.enemies[k]
        direction == Normalize(VSub(s.player.position, enemy.position))
        scaled == VScale(direction, 100, 1)
    IN  [s EXCEPT !.enemies[k].telegraphLine = TRUE,
                  !.enemies[k].telegraphTime = 500000,
                  !.enemies[k].isTelegraphing = TRUE,
                  !.enemies[k].telegraphDirection = scaled]

\* closestPoint.distanceTo(player.position) < 1.5, on components that may
\* be far outside the arena
Near(a, b, r) ==
    /\ Abs(a.x - b.x) < r
    /\ Abs(a.y - b.y) < r
    /\ Abs(a.z - b.z) < r
    /\ Within(a, b, r)

\* direction is enemy.telegraphDirection itself, and multiplyScalar(100)
\* scales it in place before the projection is taken
fireSniperBeam(s, k) ==
    LET enemy == s.enemies[k]
        start == enemy.position
        direction == VScale(enemy.telegraphDirection, 100, 1)
        toPlayer == VSub(s.player.position, start)
        ClosestPoint(projection) ==
            Vec(start.x + Div(direction.x, 1000) * projection,
                start.y + Div(direction.y, 1000) * projection,
                start.z + Div(direction.z, 1000) * projection)
        Cleared(s3) ==
            [s3 EXCEPT !.enemies[k].telegraphDirection = direction,
                       !.enemies[k].telegraphLine = FALSE,
                       !.enemies[k].isTelegraphing = FALSE]
        Shown(s2) ==
            Cleared(createParticles([s2 EXCEPT !.sniperBeams = Append(@, 200000)],
                                    8, 250000))
        Struck(s1, near, projection) ==
            Shown(IF near /\ projection > 0 THEN playerHit(s1, 100) ELSE s1)
        Beam(near, projection) ==
            Struck(Note(s, [ev |-> "beam", enemy |-> enemy.id,
                            shield |-> s.player.timeShieldActive,
                            near |-> near, projection |-> projection]),
                   near, projection)
        Cast(projection) ==
            Beam(Near(ClosestPoint(projection), s.player.position, 150),
                 projection)
    IN  Cast(Div(toPlayer.x * direction.x, 1000)
             + Div(toPlayer.y * direction.y, 1000)
             + Div(toPlayer.z * direction.z, 1000))

enemyShoot(s, k, r) ==
    LET enemy == s.enemies[k]
        Aimed(toPlayer) ==
            CASE enemy.pattern = "spread" -> shootSpread(s, enemy, toPlayer, r)
              [] enemy.pattern = "burst" -> shootBurst(s, enemy, toPlayer, 0)
              [] enemy.pattern = "ring" -> shootRing(s, enemy)
              [] enemy.pattern = "lightning" -> startSniperTelegraph(s, k)
              [] OTHER -> s
    IN  Aimed(Normalize(VSub(s.player.position, enemy.position)))

-----------------------------------------------------------------------------
(* showUpgradeSelection, selectUpgrade, spawnPickup, destroyEnemy *)

\* Array.prototype.includes
Has(q, x) == \E k \in 1..Len(q) : q[k] = x

NotAcquired(s) ==
    LET Free(id) == ~Has(s.acquiredUpgrades, id)
    IN  SelectSeq(UpgradeIds, Free)

\* a variant of the while loop that does not splice the drawn entry out of
\* available; C23 does not hold of it
RECURSIVE DrawUpgradesKept(_, _, _)
DrawUpgradesKept(available, selected, r) ==
    IF Len(selected) < 3 /\ Len(available) > 0
    THEN LET idx == (r.upg[Len(selected) + 1] * Len(available)) \div 11 + 1
         IN  DrawUpgradesKept(available, Append(selected, available[idx]), r)
    ELSE selected

\* the while loop: idx = Math.floor(Math.random() * available.length), with
\* r.upg[k] the k-th random number as a count of eleventh parts
RECURSIVE DrawUpgrades(_, _, _)
DrawUpgrades(available, selected, r) ==
    IF Len(selected) < 3 /\ Len(available) > 0
    THEN LET idx == (r.upg[Len(selected) + 1] * Len(available)) \div 11 + 1
         IN  DrawUpgrades(Splice(available, idx),
                          Append(selected, available[idx]), r)
    ELSE selected

\* a variant of showUpgradeSelection without the branch for an empty
\* selection; C25 does not hold of it
showUpgradeSelectionEmpty(s, r) ==
    LET s1 == [s EXCEPT !.isSelectingUpgrade = TRUE]
        Offer(selected) ==
            Note([s1 EXCEPT !.offered = selected],
                 [ev |-> "upgradeOffered", list |-> selected])
    IN  Offer(DrawUpgrades(NotAcquired(s), <<>>, r))

showUpgradeSelection(s, r) ==
    LET s1 == [s EXCEPT !.isSelectingUpgrade = TRUE]
        Offer(selected) ==
            IF Len(selected) = 0
            THEN SetTimeout([s1 EXCEPT !.isSelectingUpgrade = FALSE],
                            "spawnWave", 1000, 0, 0)
            ELSE Note([s1 EXCEPT !.offered = selected],
                      [ev |-> "upgradeOffered", list |-> selected])
    IN  Offer(DrawUpgrades(NotAcquired(s), <<>>, r))

\* a variant of selectUpgrade that does not push the id; C24 does not hold
\* of it
selectUpgradeUnrecorded(s, id) ==
    LET s1 == [s EXCEPT !.player = ApplyUpgrade(s.player, id),
                        !.offered = <<>>,
                        !.isSelectingUpgrade = FALSE]
    IN  SetTimeout(Note(s1, [ev |-> "upgradeApplied", id |-> id]),
                   "spawnWave", 1000, 0, 0)

selectUpgrade(s, id) ==
    LET s1 == [s EXCEPT !.player = ApplyUpgrade(s.player, id),
                        !.acquiredUpgrades = Append(@, id),
                        !.offered = <<>>,
                        !.isSelectingUpgrade = FALSE]
    IN  SetTimeout(Note(s1, [ev |-> "upgradeApplied", id |-> id]),
                   "spawnWave", 1000, 0, 0)

spawnPickup(s, position) ==
    [s EXCEPT !.pickups = Append(@, [position |-> Vec(position.x, 100, position.z),
                                     type |-> "health", life |-> 15000000])]

EnemyScore(type) ==
    CASE type = "basic" -> 100 [] type = "fast" -> 150
      [] type = "heavy" -> 250 [] type = "sniper" -> 200 [] OTHER -> 100

\* the wave-completion branch of destroyEnemy
WaveComplete(s, enemy, r) ==
    LET s1 == [s EXCEPT !.wave = @ + 1,
                        !.score = @ + (s.wave + 1) * 500 * s.player.scoreMultiplier,
                        !.hist.advances[enemy.batch] = @ + 1]
    IN  showUpgradeSelection(Note(s1, [ev |-> "waveCleared", by |-> enemy.id,
                                       batch |-> enemy.batch]), r)

\* a variant of destroyEnemy that scores the base value whatever the score
\* multiplier is; C26 does not hold of it
destroyEnemyUnscaled(s, index, r) ==
    LET enemy == s.enemies[index]
        Scored(s1) ==
            [s1 EXCEPT !.score = @ + EnemyScore(enemy.type) * 2,
                       !.kills = @ + 1]
        Dropped(s2) == IF r.pickup THEN spawnPickup(s2, enemy.position) ELSE s2
        Removed(s3) ==
            Note([s3 EXCEPT !.enemies = Splice(@, index)],
                 [ev |-> "enemyDestroyed", enemy |-> enemy.id,
                  type |-> enemy.type, health |-> enemy.health])
        Checked(s4) ==
            IF Len(s4.enemies) = 0 THEN WaveComplete(s4, enemy, r) ELSE s4
    IN  Checked(Removed(Dropped(Scored(
            createParticles(s, 12, 400000 + r.plife)))))

destroyEnemy(s, index, r) ==
    LET enemy == s.enemies[index]
        Scored(s1) ==
            [s1 EXCEPT !.score = @ + EnemyScore(enemy.type)
                                     * s.player.scoreMultiplier,
                       !.kills = @ + 1]
        Dropped(s2) == IF r.pickup THEN spawnPickup(s2, enemy.position) ELSE s2
        Removed(s3) ==
            Note([s3 EXCEPT !.enemies = Splice(@, index)],
                 [ev |-> "enemyDestroyed", enemy |-> enemy.id,
                  type |-> enemy.type, health |-> enemy.health])
        Checked(s4) ==
            IF Len(s4.enemies) = 0 THEN WaveComplete(s4, enemy, r) ELSE s4
    IN  Checked(Removed(Dropped(Scored(
            createParticles(s, 12, 400000 + r.plife)))))

-----------------------------------------------------------------------------
(* updateTimeDilation, updatePlayer *)

\* a variant of TargetTimeScale that does not clamp t at 0; C11 does not hold
\* of it
TargetTimeScaleNoFloor(mv, minTimeScale) ==
    LET Eased(t) == minTimeScale + Div(t * (1000 - minTimeScale), 1000)
        Squared(t1) == Eased(Div(t1 * t1, 1000))
    IN  Squared(Min(1000, Div((mv - 20) * 1000, 300 - 20)))

\* a variant of TargetTimeScale that does not clamp t at 1; C13 does not hold
\* of it
TargetTimeScaleNoCeiling(mv, minTimeScale) ==
    LET Eased(t) == minTimeScale + Div(t * (1000 - minTimeScale), 1000)
        Squared(t1) == Eased(Div(t1 * t1, 1000))
    IN  Squared(Max(0, Div((mv - 20) * 1000, 300 - 20)))

\* mouseVelocity is in tenths of a pixel; the thresholds are 2 and 30 pixels
TargetTimeScale(mv, minTimeScale) ==
    LET Eased(t) == minTimeScale + Div(t * (1000 - minTimeScale), 1000)
        Squared(t1) == Eased(Div(t1 * t1, 1000))
    IN  Squared(Max(0, Min(1000, Div((mv - 20) * 1000, 300 - 20))))

\* a variant of updateTimeDilation that eases at twice the rate and without
\* the cap at 1; C12 does not hold of it
updateTimeDilationEager(s, dt) ==
    LET wasAboveThreshold == s.timeScale > 300
        Eased(target, scale) ==
            LET isNowBelowThreshold == scale <= 300
                \* history: hist.lowest, the least time scale of the session
                s1 == [s EXCEPT !.targetTimeScale = target, !.timeScale = scale,
                                !.hist.lowest = Min(@, scale)]
            IN  IF s.player.timeShield /\ wasAboveThreshold
                   /\ isNowBelowThreshold
                THEN SetTimeout(Note([s1 EXCEPT !.player.timeShieldActive = TRUE,
                                                !.hist.armings = @ + 1,
                                                !.hist.sinceArmed = 0],
                                     [ev |-> "shieldArmed"]),
                                "shieldOff", 200, 0, 0)
                ELSE s1
        Toward(target) ==
            Eased(target,
                  s.timeScale
                  + Div((target - s.timeScale) * dt * 20, 1000))
    IN  Toward(TargetTimeScale(s.mouseVelocity, s.player.minTimeScale))

\* a variant of updateTimeDilation that arms the shield on every tick that
\* leaves the scale at or below 0.3; C21 does not hold of it
updateTimeDilationLevel(s, dt) ==
    LET wasAboveThreshold == TRUE
        Eased(target, scale) ==
            LET isNowBelowThreshold == scale <= 300
                \* history: hist.lowest, the least time scale of the session
                s1 == [s EXCEPT !.targetTimeScale = target, !.timeScale = scale,
                                !.hist.lowest = Min(@, scale)]
            IN  IF s.player.timeShield /\ wasAboveThreshold
                   /\ isNowBelowThreshold
                THEN SetTimeout(Note([s1 EXCEPT !.player.timeShieldActive = TRUE,
                                                !.hist.armings = @ + 1,
                                                !.hist.sinceArmed = 0],
                                     [ev |-> "shieldArmed"]),
                                "shieldOff", 200, 0, 0)
                ELSE s1
        Toward(target) ==
            Eased(target,
                  s.timeScale
                  + Div((target - s.timeScale) * Min(1000, dt * 10), 1000))
    IN  Toward(TargetTimeScale(s.mouseVelocity, s.player.minTimeScale))


updateTimeDilation(s, dt) ==
    LET wasAboveThreshold == s.timeScale > 300
        Eased(target, scale) ==
            LET isNowBelowThreshold == scale <= 300
                \* history: hist.lowest, the least time scale of the session
                s1 == [s EXCEPT !.targetTimeScale = target, !.timeScale = scale,
                                !.hist.lowest = Min(@, scale)]
            IN  IF s.player.timeShield /\ wasAboveThreshold
                   /\ isNowBelowThreshold
                THEN SetTimeout(Note([s1 EXCEPT !.player.timeShieldActive = TRUE,
                                                !.hist.armings = @ + 1,
                                                !.hist.sinceArmed = 0],
                                     [ev |-> "shieldArmed"]),
                                "shieldOff", 200, 0, 0)
                ELSE s1
        Toward(target) ==
            Eased(target,
                  s.timeScale
                  + Div((target - s.timeScale) * Min(1000, dt * 10), 1000))
    IN  Toward(TargetTimeScale(s.mouseVelocity, s.player.minTimeScale))

Clamp(v, bound) == Max(-bound, Min(bound, v))

\* a variant of MovePlayer that integrates the position over dilated time;
\* C15 does not hold of it
MovePlayerDilated(s, dt) ==
    LET direction == KeyDir(s.keys)
        v0 == s.player.velocity
        bound == arenaSize - 100
        Moved(v2) ==
            [s EXCEPT !.player.velocity = v2,
                      !.player.position =
                          Vec(Clamp(s.player.position.x +
                                        Div(v2.x * dt * s.timeScale, 1000000),
                                    bound),
                              s.player.position.y,
                              Clamp(s.player.position.z +
                                        Div(v2.z * dt * s.timeScale, 1000000),
                                    bound))]
        Driven(v1) ==
            Moved(IF s.player.isDashing THEN s.player.dashVelocity ELSE v1)
        Toward(dir) ==
            Driven(IF VLength(direction) > 0
                   THEN Vec(Div(dir.x * 1200, 1000), v0.y, Div(dir.z * 1200, 1000))
                   ELSE Vec(Div(v0.x * 9, 10), v0.y, Div(v0.z * 9, 10)))
    IN  Toward(RotateY(Normalize(direction), s.player.rotation.y))

\* a variant of MovePlayer where the keys held overrule the dash; C16 does
\* not hold of it
MovePlayerSteered(s, dt) ==
    LET direction == KeyDir(s.keys)
        v0 == s.player.velocity
        bound == arenaSize - 100
        Moved(v2) ==
            [s EXCEPT !.player.velocity = v2,
                      !.player.position =
                          Vec(Clamp(s.player.position.x + Div(v2.x * dt, 1000),
                                    bound),
                              s.player.position.y,
                              Clamp(s.player.position.z + Div(v2.z * dt, 1000),
                                    bound))]
        Driven(v1) ==
            Moved(IF s.player.isDashing /\ VLength(direction) = 0
                  THEN s.player.dashVelocity ELSE v1)
        Toward(dir) ==
            Driven(IF VLength(direction) > 0
                   THEN Vec(Div(dir.x * 1200, 1000), v0.y, Div(dir.z * 1200, 1000))
                   ELSE Vec(Div(v0.x * 9, 10), v0.y, Div(v0.z * 9, 10)))
    IN  Toward(RotateY(Normalize(direction), s.player.rotation.y))

\* the movement of updatePlayer; dt in milliseconds
MovePlayer(s, dt) ==
    LET direction == KeyDir(s.keys)
        v0 == s.player.velocity
        bound == arenaSize - 100
        Moved(v2) ==
            [s EXCEPT !.player.velocity = v2,
                      !.player.position =
                          Vec(Clamp(s.player.position.x + Div(v2.x * dt, 1000),
                                    bound),
                              s.player.position.y,
                              Clamp(s.player.position.z + Div(v2.z * dt, 1000),
                                    bound))]
        Driven(v1) ==
            Moved(IF s.player.isDashing THEN s.player.dashVelocity ELSE v1)
        Toward(dir) ==
            Driven(IF VLength(direction) > 0
                   THEN Vec(Div(dir.x * 1200, 1000), v0.y, Div(dir.z * 1200, 1000))
                   ELSE Vec(Div(v0.x * 9, 10), v0.y, Div(v0.z * 9, 10)))
    IN  Toward(RotateY(Normalize(direction), s.player.rotation.y))

\* a variant of updatePlayer that counts the dash cooldown down in dilated
\* time; C7 does not hold of it
updatePlayerDilated(s, dt, gameDt) ==
    LET cooldown == s.player.dashCooldown - gameDt \div 1000
        Cooled(s1) ==
            IF ~s.player.canDash
            THEN [s1 EXCEPT !.player.dashCooldown = cooldown,
                            !.player.canDash = (cooldown <= 0)]
            ELSE s1
        Ticked(s3) == [s3 EXCEPT !.shootCooldown = @ - dt]
    IN  Ticked(IF s.mouseDown THEN shoot(Cooled(MovePlayer(s, dt)))
               ELSE Cooled(MovePlayer(s, dt)))

\* dt in milliseconds, gameDt in microseconds
updatePlayer(s, dt, gameDt) ==
    LET cooldown == s.player.dashCooldown - dt
        Cooled(s1) ==
            IF ~s.player.canDash
            THEN [s1 EXCEPT !.player.dashCooldown = cooldown,
                            !.player.canDash = (cooldown <= 0)]
            ELSE s1
        Ticked(s3) == [s3 EXCEPT !.shootCooldown = @ - dt]
    IN  Ticked(IF s.mouseDown THEN shoot(Cooled(MovePlayer(s, dt)))
               ELSE Cooled(MovePlayer(s, dt)))

-----------------------------------------------------------------------------
(* updateEnemies.  gameDt is in microseconds.                               *)

\* v * gameDt: a displacement in 1/100 unit
Move(v, gameDt) == Div(v * (gameDt \div 100), 10000)

VMove(p, v, gameDt) ==
    Vec(p.x + Move(v.x, gameDt), p.y + Move(v.y, gameDt), p.z + Move(v.z, gameDt))

\* the telegraph branch of the forEach body
TelegraphStep(s, k, gameDt) ==
    LET enemy == s.enemies[k]
        time == enemy.telegraphTime - gameDt
        direction == IF enemy.telegraphLine
                     THEN Normalize(VSub(s.player.position, enemy.position))
                     ELSE enemy.telegraphDirection
        Aimed(d) == [s EXCEPT !.enemies[k].telegraphTime = time,
                              !.enemies[k].telegraphDirection = d]
    IN  IF time <= 0 THEN fireSniperBeam(Aimed(direction), k)
        ELSE Aimed(direction)

\* the wander vector 0.3 * (sin, 0, cos) of Date.now() * 0.001 + mesh.id, in
\* thousandths
Wander(a) == Vec(Div(Sin(a) * 3, 10), 0, Div(Cos(a) * 3, 10))

\* the rest of the forEach body: steer, move, face, shoot
PursueStep(s, k, gameDt, r) ==
    LET enemy == s.enemies[k]
        diff == VSub(s.player.position, enemy.position)
        distance == VLength(diff)
        wander == Wander(s.now + enemy.mesh)
        bound == arenaSize - 200
        shootTimer == enemy.shootTimer - gameDt
        TargetDir(toPlayer) ==
            Normalize(IF enemy.type = "sniper" /\ distance < 2500
                      THEN VAdd(VScale(toPlayer, -1, 1), wander)
                      ELSE IF distance > 500
                      THEN VAdd(toPlayer, wander)
                      ELSE VAdd(Vec(-toPlayer.z, 0, toPlayer.x), wander))
        Velocity(targetDir) ==
            VLerp(enemy.velocity, VScale(targetDir, enemy.speed, 1000),
                  Div((gameDt \div 100) * 3, 10))
        Moved(velocity) ==
            [s EXCEPT !.enemies[k].velocity = velocity,
                      !.enemies[k].position =
                          Vec(Clamp(enemy.position.x + Move(velocity.x, gameDt),
                                    bound),
                              enemy.position.y,
                              Clamp(enemy.position.z + Move(velocity.z, gameDt),
                                    bound)),
                      !.enemies[k].shootTimer = shootTimer]
        s1 == Moved(Velocity(TargetDir(Normalize(diff))))
    IN  IF shootTimer <= 0 /\ distance < 4000
        THEN [enemyShoot(s1, k, r) EXCEPT
                 !.enemies[k].shootTimer = enemy.shootRate + r.reload]
        ELSE s1

\* a variant of updateEnemiesFrom without the return that ends the
\* telegraph branch; C29 does not hold of it
RECURSIVE updateEnemiesFromThrough(_, _, _, _)
updateEnemiesFromThrough(s, k, gameDt, r) ==
    IF k > Len(s.enemies) THEN s
    ELSE updateEnemiesFromThrough(
             IF s.enemies[k].isTelegraphing
             THEN PursueStep(TelegraphStep(s, k, gameDt), k, gameDt, r)
             ELSE PursueStep(s, k, gameDt, r),
             k + 1, gameDt, r)

RECURSIVE updateEnemiesFrom(_, _, _, _)
updateEnemiesFrom(s, k, gameDt, r) ==
    IF k > Len(s.enemies) THEN s
    ELSE updateEnemiesFrom(IF s.enemies[k].isTelegraphing
                           THEN TelegraphStep(s, k, gameDt)
                           ELSE PursueStep(s, k, gameDt, r),
                           k + 1, gameDt, r)

updateEnemies(s, gameDt, r) == updateEnemiesFrom(s, 1, gameDt, r)

-----------------------------------------------------------------------------
(* updateBullets *)

\* the lerp factor homingStrength * gameDt * 60, in thousandths
HomingAlpha(strength, gameDt) == Div(strength * 6 * (gameDt \div 100), 1000)

\* bullet.velocity.lerp(to.multiplyScalar(bullet.velocity.length()), alpha)
Steer(bullet, target, gameDt) ==
    LET to == Normalize(VSub(target, bullet.position))
    IN  VLerp(bullet.velocity, VScale(to, VLength(bullet.velocity), 1000),
              HomingAlpha(bullet.homingStrength, gameDt))

\* the forEach that keeps the closest enemy nearer than 20: the first of
\* the nearest ones, 0 when there is none
ClosestEnemy(s, pos) ==
    LET D(k) == VLenSq(VSub(pos, s.enemies[k].position))
        near == {k \in 1..Len(s.enemies) : D(k) < 2000 * 2000}
    IN  IF near = {} THEN 0
        ELSE CHOOSE k \in near :
                \A m \in near : D(k) < D(m) \/ (D(k) = D(m) /\ k <= m)

OutOfArena(pos) == Abs(pos.x) > arenaSize \/ Abs(pos.z) > arenaSize

\* a variant of EnemyScan that, having spliced a destroyed enemy out, steps
\* over the enemy that follows it; C8 does not hold of it
RECURSIVE EnemyScanSkipping(_, _, _, _)
EnemyScanSkipping(s, b, j, r) ==
    IF j < 1 THEN [s |-> s, hit |-> FALSE]
    ELSE IF Within(b.position, s.enemies[j].position, 120)
    THEN LET enemy == s.enemies[j]
             Onward(s3, dead) ==
                 IF ~b.piercing THEN [s |-> s3, hit |-> TRUE]
                 ELSE EnemyScanSkipping(s3, b, IF dead THEN j - 2 ELSE j - 1, r)
             Struck(s2, dead) ==
                 Onward(IF dead THEN destroyEnemy(s2, j, r) ELSE s2, dead)
             Damaged(s2) == Struck(s2, s2.enemies[j].health <= 0)
         IN  Damaged(createParticles(
                 Note([s EXCEPT !.enemies[j].health = @ - b.damage],
                      [ev |-> "damaged", enemy |-> enemy.id, bullet |-> b.id]),
                 3, 250000))
    ELSE EnemyScanSkipping(s, b, j - 1, r)

\* the inner for loop over the enemies, from index j down; b is the bullet
RECURSIVE EnemyScan(_, _, _, _)
EnemyScan(s, b, j, r) ==
    IF j < 1 THEN [s |-> s, hit |-> FALSE]
    ELSE IF Within(b.position, s.enemies[j].position, 120)
    THEN LET enemy == s.enemies[j]
             Onward(s3) ==
                 IF ~b.piercing THEN [s |-> s3, hit |-> TRUE]
                 ELSE EnemyScan(s3, b, j - 1, r)
             Damaged(s2) ==
                 Onward(IF s2.enemies[j].health <= 0 THEN destroyEnemy(s2, j, r)
                        ELSE s2)
         IN  Damaged(createParticles(
                 Note([s EXCEPT !.enemies[j].health = @ - b.damage],
                      [ev |-> "damaged", enemy |-> enemy.id, bullet |-> b.id]),
                 3, 250000))
    ELSE EnemyScan(s, b, j - 1, r)

\* history: the enemies bullet b overlaps as its scan starts
Overlapped(s, b) ==
    {s.enemies[k].id : k \in {m \in 1..Len(s.enemies) :
                                Within(b.position, s.enemies[m].position, 120)}}

\* the body of the player-bullet loop for index i, which stays within the
\* array: only the bullet at i is ever spliced out
PlayerBulletStep(s, i, gameDt, r) ==
    LET b0 == s.bullets[i]
        Velocity(target) ==
            IF target > 0 THEN Steer(b0, s.enemies[target].position, gameDt)
            ELSE b0.velocity
        Flown(velocity) ==
            [b0 EXCEPT !.velocity = velocity,
                       !.position = VMove(b0.position, velocity, gameDt),
                       !.life = @ - gameDt]
        Placed(bullet) ==
            Note([s EXCEPT !.bullets[i] = bullet],
                 [ev |-> "scan", bullet |-> bullet.id,
                  piercing |-> bullet.piercing,
                  overlap |-> Overlapped(s, bullet),
                  order |-> [k \in 1..Len(s.enemies) |->
                               s.enemies[Len(s.enemies) + 1 - k].id]])
        Settled(res, bullet) ==
            IF res.hit \/ bullet.life <= 0 \/ OutOfArena(bullet.position)
            THEN [res.s EXCEPT !.bullets = Splice(@, i)]
            ELSE res.s
        bullet == Flown(Velocity(IF b0.homingActivated /\ b0.homingStrength > 0
                                 THEN ClosestEnemy(s, b0.position) ELSE 0))
    IN  Settled(EnemyScan(Placed(bullet), bullet, Len(s.enemies), r), bullet)

\* the n iterations of the loop from index i down: the first half of them,
\* then the others
RECURSIVE PlayerBulletsFrom(_, _, _, _, _)
PlayerBulletsFrom(s, i, n, gameDt, r) ==
    IF s.bullets = <<>> \/ n <= 0 THEN s
    ELSE IF n = 1
    THEN IF i > Len(s.bullets) THEN s ELSE PlayerBulletStep(s, i, gameDt, r)
    ELSE LET half == n \div 2
             Rest(s1) == PlayerBulletsFrom(s1, i - half, n - half, gameDt, r)
         IN  Rest(PlayerBulletsFrom(s, i, half, gameDt, r))

\* the inner loop over the player bullets, from index j down: 0, or the
\* index of the first one within 0.8 of the enemy bullet
ShotDownBy(s, bullet, j) ==
    LET near == {k \in 1..j : Within(bullet.position, s.bullets[k].position, 80)}
    IN  IF near = {} THEN 0 ELSE CHOOSE k \in near : \A m \in near : m <= k

\* history: the player bullets within 0.8 of the enemy bullet
NearBullets(s, bullet) ==
    {s.bullets[k].id : k \in {m \in 1..Len(s.bullets) :
        Within(bullet.position, s.bullets[m].position, 80)}}

\* a variant of ShootDown that scores once for every player bullet within
\* reach; C9 does not hold of it
ShootDownScoringEach(s, i, j) ==
    LET bullet == s.enemyBullets[i]
        s1 == [s EXCEPT !.enemyBullets = Splice(@, i), !.bullets = Splice(@, j)]
        s2 == createParticles(s1, 6, 300000)
        s3 == [s2 EXCEPT !.score = @ + 50 * s.player.scoreMultiplier
                                        * Cardinality(NearBullets(s, bullet))]
    IN  Note(s3, [ev |-> "shotDown", bullet |-> bullet.id,
                  by |-> s.bullets[j].id, had |-> Len(s.bullets),
                  left |-> Len(s3.bullets), scored |-> s3.score - s.score])

\* the branch that destroys enemy bullet i and player bullet j
ShootDown(s, i, j) ==
    LET bullet == s.enemyBullets[i]
        s1 == [s EXCEPT !.enemyBullets = Splice(@, i), !.bullets = Splice(@, j)]
        s2 == createParticles(s1, 6, 300000)
        s3 == [s2 EXCEPT !.score = @ + 50 * s.player.scoreMultiplier]
    IN  Note(s3, [ev |-> "shotDown", bullet |-> bullet.id,
                  by |-> s.bullets[j].id, had |-> Len(s.bullets),
                  left |-> Len(s3.bullets), scored |-> s3.score - s.score])

\* a variant of EnemyBulletStep that leaves in flight the bullet the time
\* shield absorbs; C19 does not hold of it
EnemyBulletStepKept(s, i, gameDt, r) ==
    LET b0 == s.enemyBullets[i]
        arming == ~b0.homingActivated /\ b0.homingDelay > 0
        delay == IF arming THEN b0.homingDelay - gameDt ELSE b0.homingDelay
        flips == arming /\ delay <= 0
        b1 == [b0 EXCEPT !.homingDelay = delay,
                         !.homingActivated = @ \/ flips]
        homing == b1.homingActivated /\ b1.homingStrength > 0
        Flown(velocity) ==
            [b1 EXCEPT !.velocity = velocity,
                       !.position = VMove(b1.position, velocity, gameDt),
                       !.life = @ - gameDt]
        Trailed(s1) ==
            IF homing /\ r.trail THEN createParticle(s1, 150000) ELSE s1
        Placed(s2, bullet) == [s2 EXCEPT !.enemyBullets[i] = bullet]
        Marked(s3, bullet) ==
            IF bullet.canBeShot
            THEN Note(s3, [ev |-> "canBeShot", bullet |-> bullet.id,
                           near |-> NearBullets(s3, bullet)])
            ELSE s3
        Hit(s5, bullet) ==
            IF ~s5.player.timeShieldActive THEN playerHit(s5, bullet.damage)
            ELSE s5
        Gone(s6) == IF s6.player.timeShieldActive THEN s6
                    ELSE [s6 EXCEPT !.enemyBullets = Splice(@, i)]
        \* j: the player bullet that shoots this one down, or 0
        Resolved(s4, bullet, j) ==
            IF j > 0 THEN ShootDown(s4, i, j)
            ELSE IF Within(bullet.position, s4.player.position, 80)
            THEN Gone(Hit(Note(s4, [ev |-> "reached", bullet |-> bullet.id,
                                    shield |-> s4.player.timeShieldActive,
                                    damage |-> bullet.damage]),
                          bullet))
            ELSE IF bullet.life <= 0 \/ OutOfArena(bullet.position)
            THEN Gone(s4)
            ELSE s4
        Checked(s4, bullet) ==
            Resolved(s4, bullet,
                     IF bullet.canBeShot
                     THEN ShotDownBy(s4, bullet, Len(s4.bullets)) ELSE 0)
        Moved(s1, bullet) ==
            Checked(Marked(Placed(Trailed(s1), bullet), bullet), bullet)
    IN  Moved(IF flips
              THEN createParticles(Note(s, [ev |-> "homingOn", bullet |-> b0.id]),
                                   4, 200000)
              ELSE s,
              Flown(IF homing THEN Steer(b1, s.player.position, gameDt)
                    ELSE b1.velocity))


\* the body of the enemy-bullet loop for index i
\* a variant of EnemyBulletStep that runs homingDelay down at twice the rate;
\* C30 does not hold of it
EnemyBulletStepHasty(s, i, gameDt, r) ==
    LET b0 == s.enemyBullets[i]
        arming == ~b0.homingActivated /\ b0.homingDelay > 0
        delay == IF arming THEN b0.homingDelay - 2 * gameDt ELSE b0.homingDelay
        flips == arming /\ delay <= 0
        b1 == [b0 EXCEPT !.homingDelay = delay,
                         !.homingActivated = @ \/ flips]
        homing == b1.homingActivated /\ b1.homingStrength > 0
        Flown(velocity) ==
            [b1 EXCEPT !.velocity = velocity,
                       !.position = VMove(b1.position, velocity, gameDt),
                       !.life = @ - gameDt]
        Trailed(s1) ==
            IF homing /\ r.trail THEN createParticle(s1, 150000) ELSE s1
        Placed(s2, bullet) == [s2 EXCEPT !.enemyBullets[i] = bullet]
        Marked(s3, bullet) ==
            IF bullet.canBeShot
            THEN Note(s3, [ev |-> "canBeShot", bullet |-> bullet.id,
                           near |-> NearBullets(s3, bullet)])
            ELSE s3
        Hit(s5, bullet) ==
            IF ~s5.player.timeShieldActive THEN playerHit(s5, bullet.damage)
            ELSE s5
        Gone(s6) == [s6 EXCEPT !.enemyBullets = Splice(@, i)]
        \* j: the player bullet that shoots this one down, or 0
        Resolved(s4, bullet, j) ==
            IF j > 0 THEN ShootDown(s4, i, j)
            ELSE IF Within(bullet.position, s4.player.position, 80)
            THEN Gone(Hit(Note(s4, [ev |-> "reached", bullet |-> bullet.id,
                                    shield |-> s4.player.timeShieldActive,
                                    damage |-> bullet.damage]),
                          bullet))
            ELSE IF bullet.life <= 0 \/ OutOfArena(bullet.position)
            THEN Gone(s4)
            ELSE s4
        Checked(s4, bullet) ==
            Resolved(s4, bullet,
                     IF bullet.canBeShot
                     THEN ShotDownBy(s4, bullet, Len(s4.bullets)) ELSE 0)
        Moved(s1, bullet) ==
            Checked(Marked(Placed(Trailed(s1), bullet), bullet), bullet)
    IN  Moved(IF flips
              THEN createParticles(Note(s, [ev |-> "homingOn", bullet |-> b0.id]),
                                   4, 200000)
              ELSE s,
              Flown(IF homing THEN Steer(b1, s.player.position, gameDt)
                    ELSE b1.velocity))

\* EnemyBulletStep that keeps a bullet whose life has run out
EnemyBulletStepUndying(s, i, gameDt, r) ==
    LET b0 == s.enemyBullets[i]
        arming == ~b0.homingActivated /\ b0.homingDelay > 0
        delay == IF arming THEN b0.homingDelay - gameDt ELSE b0.homingDelay
        flips == arming /\ delay <= 0
        b1 == [b0 EXCEPT !.homingDelay = delay,
                         !.homingActivated = @ \/ flips]
        homing == b1.homingActivated /\ b1.homingStrength > 0
        Flown(velocity) ==
            [b1 EXCEPT !.velocity = velocity,
                       !.position = VMove(b1.position, velocity, gameDt),
                       !.life = @ - gameDt]
        Trailed(s1) ==
            IF homing /\ r.trail THEN createParticle(s1, 150000) ELSE s1
        Placed(s2, bullet) == [s2 EXCEPT !.enemyBullets[i] = bullet]
        Marked(s3, bullet) ==
            IF bullet.canBeShot
            THEN Note(s3, [ev |-> "canBeShot", bullet |-> bullet.id,
                           near |-> NearBullets(s3, bullet)])
            ELSE s3
        Hit(s5, bullet) ==
            IF ~s5.player.timeShieldActive THEN playerHit(s5, bullet.damage)
            ELSE s5
        Gone(s6) == [s6 EXCEPT !.enemyBullets = Splice(@, i)]
        \* j: the player bullet that shoots this one down, or 0
        Resolved(s4, bullet, j) ==
            IF j > 0 THEN ShootDown(s4, i, j)
            ELSE IF Within(bullet.position, s4.player.position, 80)
            THEN Gone(Hit(Note(s4, [ev |-> "reached", bullet |-> bullet.id,
                                    shield |-> s4.player.timeShieldActive,
                                    damage |-> bullet.damage]),
                          bullet))
            ELSE IF OutOfArena(bullet.position)
            THEN Gone(s4)
            ELSE s4
        Checked(s4, bullet) ==
            Resolved(s4, bullet,
                     IF bullet.canBeShot
                     THEN ShotDownBy(s4, bullet, Len(s4.bullets)) ELSE 0)
        Moved(s1, bullet) ==
            Checked(Marked(Placed(Trailed(s1), bullet), bullet), bullet)
    IN  Moved(IF flips
              THEN createParticles(Note(s, [ev |-> "homingOn", bullet |-> b0.id]),
                                   4, 200000)
              ELSE s,
              Flown(IF homing THEN Steer(b1, s.player.position, gameDt)
                    ELSE b1.velocity))

EnemyBulletStep(s, i, gameDt, r) ==
    LET b0 == s.enemyBullets[i]
        arming == ~b0.homingActivated /\ b0.homingDelay > 0
        delay == IF arming THEN b0.homingDelay - gameDt ELSE b0.homingDelay
        flips == arming /\ delay <= 0
        b1 == [b0 EXCEPT !.homingDelay = delay,
                         !.homingActivated = @ \/ flips]
        homing == b1.homingActivated /\ b1.homingStrength > 0
        Flown(velocity) ==
            [b1 EXCEPT !.velocity = velocity,
                       !.position = VMove(b1.position, velocity, gameDt),
                       !.life = @ - gameDt]
        Trailed(s1) ==
            IF homing /\ r.trail THEN createParticle(s1, 150000) ELSE s1
        Placed(s2, bullet) == [s2 EXCEPT !.enemyBullets[i] = bullet]
        Marked(s3, bullet) ==
            IF bullet.canBeShot
            THEN Note(s3, [ev |-> "canBeShot", bullet |-> bullet.id,
                           near |-> NearBullets(s3, bullet)])
            ELSE s3
        Hit(s5, bullet) ==
            IF ~s5.player.timeShieldActive THEN playerHit(s5, bullet.damage)
            ELSE s5
        Gone(s6) == [s6 EXCEPT !.enemyBullets = Splice(@, i)]
        \* j: the player bullet that shoots this one down, or 0
        Resolved(s4, bullet, j) ==
            IF j > 0 THEN ShootDown(s4, i, j)
            ELSE IF Within(bullet.position, s4.player.position, 80)
            THEN Gone(Hit(Note(s4, [ev |-> "reached", bullet |-> bullet.id,
                                    shield |-> s4.player.timeShieldActive,
                                    damage |-> bullet.damage]),
                          bullet))
            ELSE IF bullet.life <= 0 \/ OutOfArena(bullet.position)
            THEN Gone(s4)
            ELSE s4
        Checked(s4, bullet) ==
            Resolved(s4, bullet,
                     IF bullet.canBeShot
                     THEN ShotDownBy(s4, bullet, Len(s4.bullets)) ELSE 0)
        Moved(s1, bullet) ==
            Checked(Marked(Placed(Trailed(s1), bullet), bullet), bullet)
    IN  Moved(IF flips
              THEN createParticles(Note(s, [ev |-> "homingOn", bullet |-> b0.id]),
                                   4, 200000)
              ELSE s,
              Flown(IF homing THEN Steer(b1, s.player.position, gameDt)
                    ELSE b1.velocity))

\* the n iterations of the loop from index i down: the first half of them,
\* then the others
RECURSIVE EnemyBulletsFrom(_, _, _, _, _)
EnemyBulletsFrom(s, i, n, gameDt, r) ==
    IF s.enemyBullets = <<>> \/ n <= 0 THEN s
    ELSE IF n = 1
    THEN IF i > Len(s.enemyBullets) THEN s ELSE EnemyBulletStep(s, i, gameDt, r)
    ELSE LET half == n \div 2
             Rest(s1) == EnemyBulletsFrom(s1, i - half, n - half, gameDt, r)
         IN  Rest(EnemyBulletsFrom(s, i, half, gameDt, r))

updateBullets(s, gameDt, r) ==
    LET Enemy(s1) == EnemyBulletsFrom(s1, Len(s1.enemyBullets),
                                      Len(s1.enemyBullets), gameDt, r)
    IN  Enemy(PlayerBulletsFrom(s, Len(s.bullets), Len(s.bullets), gameDt, r))

-----------------------------------------------------------------------------
(* updateSniperBeams, updatePickups, updateParticles *)

\* a loop that takes gameDt off every remaining life and drops those at 0
Decay(lives, gameDt) ==
    LET Alive(l) == l > 0
    IN  SelectSeq([k \in 1..Len(lives) |-> lives[k] - gameDt], Alive)

updateSniperBeams(s, gameDt) ==
    [s EXCEPT !.sniperBeams = Decay(@, gameDt)]

updateParticles(s, gameDt) ==
    [s EXCEPT !.particles = Decay(@, gameDt)]

\* a variant of PickupStep that adds the 25 health without the cap at
\* maxHealth; C27 does not hold of it
PickupStepUncapped(s, i, gameDt, r) ==
    LET p0 == s.pickups[i]
        pickup == [p0 EXCEPT !.position.y = 100 + Div(Sin(3 * s.now) * 20, 1000),
                             !.life = @ - gameDt]
        s1 == [s EXCEPT !.pickups[i] = pickup]
    IN  IF Within(pickup.position, s.player.position, s.player.pickupRange)
        THEN Note([s1 EXCEPT !.player.health = s.player.health + 100,
                             !.pickups = Splice(@, i)],
                  [ev |-> "pickedUp", before |-> s.player.health])
        ELSE IF pickup.life <= 0
        THEN Note([s1 EXCEPT !.pickups = Splice(@, i)], [ev |-> "pickupExpired"])
        ELSE s1

\* the body of the pickup loop for index i
PickupStep(s, i, gameDt, r) ==
    LET p0 == s.pickups[i]
        pickup == [p0 EXCEPT !.position.y = 100 + Div(Sin(3 * s.now) * 20, 1000),
                             !.life = @ - gameDt]
        s1 == [s EXCEPT !.pickups[i] = pickup]
    IN  IF Within(pickup.position, s.player.position, s.player.pickupRange)
        THEN Note([s1 EXCEPT !.player.health =
                                 Min(s.player.maxHealth, s.player.health + 100),
                             !.pickups = Splice(@, i)],
                  [ev |-> "pickedUp", before |-> s.player.health])
        ELSE IF pickup.life <= 0
        THEN Note([s1 EXCEPT !.pickups = Splice(@, i)], [ev |-> "pickupExpired"])
        ELSE s1

\* the n iterations of the loop from index i down: the first half of them,
\* then the others
RECURSIVE updatePickupsFrom(_, _, _, _, _)
updatePickupsFrom(s, i, n, gameDt, r) ==
    IF s.pickups = <<>> \/ n <= 0 THEN s
    ELSE IF n = 1
    THEN IF i > Len(s.pickups) THEN s ELSE PickupStep(s, i, gameDt, r)
    ELSE LET half == n \div 2
             Rest(s1) == updatePickupsFrom(s1, i - half, n - half, gameDt, r)
         IN  Rest(updatePickupsFrom(s, i, half, gameDt, r))

updatePickups(s, gameDt, r) ==
    updatePickupsFrom(s, Len(s.pickups), Len(s.pickups), gameDt, r)

-----------------------------------------------------------------------------
(* gameLoop, startGame, restartGame *)

\* gap: the milliseconds clock.getDelta() measured; next: the time to the
\* frame that requestAnimationFrame asks for
gameLoop(s, gap, r, next) ==
    IF ~s.isRunning THEN [s EXCEPT !.frame = NoFrame]
    ELSE LET dt == Min(gap, 100)
             \* history: the real time since the dash, by the clock
             \* (clockSinceDash) and over the ticks that update (sinceDash)
             sd == IF s.player.canDash THEN 0 ELSE dt
             s0 == [s EXCEPT !.frame = [pending |-> TRUE, delay |-> next,
                                         gap |-> next],
                             !.hist.ticks = @ + 1,
                             !.hist.clockSinceDash = @ + sd]
         IN  IF s.isSelectingUpgrade THEN Note(s0, [ev |-> "frozen"])
             ELSE LET s1 == updateTimeDilation(
                                Note([s0 EXCEPT !.hist.sinceDash = @ + sd],
                                     [ev |-> "tick", dt |-> dt]), dt)
                      gameDt == dt * s1.timeScale
                  IN  updateParticles(
                        updatePickups(
                          updateSniperBeams(
                            updateBullets(
                              updateEnemies(
                                updatePlayer(s1, dt, gameDt),
                                gameDt, r),
                              gameDt, r),
                            gameDt),
                          gameDt, r),
                        gameDt)

\* the first clock.getDelta() starts the clock and returns 0
startGame(s, r, next) ==
    gameLoop(spawnWave([s EXCEPT !.screen = "none", !.isRunning = TRUE]),
             0, r, next)

restartGame(s) ==
    LET p == [s.player EXCEPT
                 !.position = Vec(0, 160, 0), !.velocity = Zero3,
                 !.rotation = [x |-> 0, y |-> 0],
                 !.health = 400, !.maxHealth = 400,
                 !.canDash = TRUE, !.dashCooldown = 0, !.dashCooldownMax = 2000,
                 !.damage = 100, !.fireRate = 150, !.bulletCount = 1,
                 !.bulletSpread = 0, !.piercing = FALSE, !.seekerRounds = FALSE,
                 !.minTimeScale = 100, !.scoreMultiplier = 2,
                 !.pickupRange = 150, !.timeShield = FALSE]
        s1 == [s EXCEPT !.player = p, !.score = 0, !.kills = 0, !.wave = 1,
                        !.timeScale = 1000, !.targetTimeScale = 1000,
                        !.acquiredUpgrades = <<>>, !.isSelectingUpgrade = FALSE,
                        !.enemies = <<>>, !.bullets = <<>>,
                        !.enemyBullets = <<>>, !.particles = <<>>,
                        !.pickups = <<>>, !.sniperBeams = <<>>,
                        !.offered = <<>>, !.screen = "none",
                        !.isRunning = TRUE, !.hist.restarts = @ + 1,
                        !.hist.restartBatch = s.hist.spawnWaves + 1]
    IN  spawnWave(Note(s1, [ev |-> "restart"]))

-----------------------------------------------------------------------------
(* setupEventListeners *)

\* the samples of the last 100 ms
Recent(h) ==
    LET Fresh(e) == e.age < 100
    IN  SelectSeq(h, Fresh)

\* dx, dy in pixels; velocities in tenths of a pixel
onMouseMove(s, dx, dy) ==
    IF ~s.isRunning \/ s.isSelectingUpgrade THEN s
    ELSE LET velocity == ISqrt((dx * dx + dy * dy) * 100)
             history == Recent(Append(s.mouseHistory,
                                      [velocity |-> velocity, age |-> 0]))
             avgVelocity ==
                 Div(SeqSum([k \in 1..Len(history) |-> history[k].velocity]),
                     Len(history))
         IN  [s EXCEPT !.mouseHistory = history,
                       !.mouseVelocity = avgVelocity,
                       !.player.rotation.y = @ - dx * 2,
                       !.player.rotation.x =
                           Max(-(Pi \div 2), Min(Pi \div 2, @ - dy * 2))]

onKeyDown(s, code) ==
    LET s1 == Note([s EXCEPT !.keys = @ \cup {code}],
                   [ev |-> "keydown", code |-> code])
    IN  IF code = "Space" /\ s.isRunning /\ ~s.isSelectingUpgrade
        THEN tryDash(s1) ELSE s1

onKeyUp(s, code) == [s EXCEPT !.keys = @ \ {code}]

-----------------------------------------------------------------------------
(* Time.  Timers and the frame callback hold the time left to them; the     *)
(* callback that is due first runs, and the others come that much closer.   *)

\* d milliseconds pass
Elapse(s, d) ==
    [s EXCEPT !.timers = [k \in 1..Len(s.timers) |->
                            [s.timers[k] EXCEPT !.delay = @ - d]],
              !.frame.delay = IF s.frame.pending THEN @ - d ELSE @,
              !.now = @ + d,
              !.mouseHistory = [k \in 1..Len(s.mouseHistory) |->
                                  [s.mouseHistory[k] EXCEPT
                                      !.age = Min(100, @ + d)]],
              \* history: the real time since the time shield was last armed
              !.hist.sinceArmed = IF s.hist.armings > 0 THEN @ + d ELSE @]

\* the timer that is due first: the earliest set among those with least delay
NextTimer(q) ==
    CHOOSE k \in 1..Len(q) :
        \A m \in 1..Len(q) :
            q[k].delay < q[m].delay \/ (q[k].delay = q[m].delay /\ k <= m)

\* the callback of timer t
RunTimer(s, t, r) ==
    CASE t.kind = "spawnEnemy" -> spawnEnemy(s, t.a, r)
      [] t.kind = "spawnWave" -> spawnWave(s)
      [] t.kind = "dashEnd" -> [s EXCEPT !.player.isDashing = FALSE]
      [] t.kind = "dashTrail" -> createParticle(s, 300000)
      [] t.kind = "burst" -> BurstStep(s, t.a, t.b, r)
      [] t.kind = "shieldOff" -> [s EXCEPT !.player.timeShieldActive = FALSE]

-----------------------------------------------------------------------------
(* The environment.  A specification fixes an environment record E:         *)
(*   sessions  how a session may go: [gap, rnd, spawn, script]              *)
(*               gap     the milliseconds between frames of the display     *)
(*               rnd     what Math.random() may give a frame or a timer:    *)
(*                       [jx, jz, gentle, reload, plife, pickup, upg,       *)
(*                       trail]                                             *)
(*               spawn   the draws Math.random() may give spawnEnemy:       *)
(*                       sequences of [x, z, t, frac, mesh], one draw for   *)
(*                       each turn of its loop, each on a side of the       *)
(*                       square the enemies come in from                    *)
(*               script  the timed inputs the user begins with              *)
(*   free      the inputs the user may give once the script is played       *)
(*   maxFree   how many of those                                            *)
(*   maxTicks  how many frames the run is followed for                      *)
(* An input is [ev, code, dx, dy]; a script entry [tick, input] is given    *)
(* once that many frames have run and the page takes the input.             *)

In(ev, code, dx, dy) == [ev |-> ev, code |-> code, dx |-> dx, dy |-> dy]

At(tick, input) == [tick |-> tick, input |-> input]

\* the page takes input e now: a button or card that is shown
Ready(e) ==
    CASE e.ev = "start" -> screen = "start"
      [] e.ev = "restart" -> screen = "gameover"
      [] e.ev = "card" -> Has(offered, e.code)
      [] OTHER -> TRUE

\* a scripted input is due: the session gives it as soon as the page takes it
Due ==
    /\ session.script # <<>>
    /\ Head(session.script).tick <= hist.ticks
    /\ Ready(Head(session.script).input)

\* the inputs the session may give now
Offered(E) ==
    IF session.script # <<>>
    THEN IF Due THEN {Head(session.script).input} ELSE {}
    ELSE IF session.free > 0 THEN E.free ELSE {}

\* one input has been given
Given ==
    session' = IF session.script # <<>> THEN [session EXCEPT !.script = Tail(@)]
            ELSE [session EXCEPT !.free = @ - 1]

-----------------------------------------------------------------------------
(* Actions: the DOM event handlers *)

\* click on #start-btn, shown while the start screen is
StartClick(E) ==
    /\ screen = "start"
    /\ \E e \in Offered(E) :
        /\ e.ev = "start"
        /\ \E r \in session.rnd : Commit(startGame(Cur, r, session.gap))
    /\ Given

\* click on #restart-btn, shown while the game-over screen is
RestartClick(E) ==
    /\ screen = "gameover"
    /\ \E e \in Offered(E) :
        /\ e.ev = "restart"
        /\ Commit(restartGame(Cur))
    /\ Given

MouseMove(E) ==
    /\ \E e \in Offered(E) :
        /\ e.ev = "move"
        /\ Commit(onMouseMove(Cur, e.dx, e.dy))
    /\ Given

MouseDown(E) ==
    /\ \E e \in Offered(E) :
        /\ e.ev = "down"
        /\ Commit([Cur EXCEPT !.mouseDown = TRUE])
    /\ Given

MouseUp(E) ==
    /\ \E e \in Offered(E) :
        /\ e.ev = "up"
        /\ Commit([Cur EXCEPT !.mouseDown = FALSE])
    /\ Given

KeyDown(E) ==
    /\ \E e \in Offered(E) :
        /\ e.ev = "keydown"
        /\ Commit(onKeyDown(Cur, e.code))
    /\ Given

KeyUp(E) ==
    /\ \E e \in Offered(E) :
        /\ e.ev = "keyup"
        /\ Commit(onKeyUp(Cur, e.code))
    /\ Given

\* click on one of the cards showUpgradeSelection put on the upgrade screen
CardClick(E) ==
    /\ \E e \in Offered(E) :
        /\ e.ev = "card"
        /\ Has(offered, e.code)
        /\ Commit(selectUpgrade(Cur, e.code))
    /\ Given

-----------------------------------------------------------------------------
(* Actions: the timer and frame callbacks *)

\* the setTimeout callback that is due first runs, unless the frame is due
\* before it
FireTimer(E) ==
    /\ timers # <<>>
    /\ ~Due
    /\ LET k == NextTimer(timers)
           t == timers[k]
           s == Elapse([Cur EXCEPT !.timers = Splice(@, k)], t.delay)
       IN  /\ frame.pending => t.delay <= frame.delay
           /\ IF t.kind = "spawnEnemy"
              THEN \E q \in session.spawn :
                      /\ \A n \in 1..Len(q) :
                            Max(Abs(q[n].x), Abs(q[n].z)) = arenaSize - 500
                      /\ \E n \in 1..Len(q) : SpawnPointOk(s, q[n].x, q[n].z)
                      /\ Commit(RunTimer(s, t, SpawnDraw(s, q)))
              ELSE \E r \in session.rnd : Commit(RunTimer(s, t, r))
    /\ UNCHANGED session

\* the requestAnimationFrame callback runs, unless a timer is due before it;
\* the display keeps its rate
Frame(E) ==
    /\ frame.pending
    /\ ~Due
    /\ hist.ticks < E.maxTicks
    /\ \A k \in 1..Len(timers) : timers[k].delay >= frame.delay
    /\ \E r \in session.rnd :
          Commit(gameLoop(Elapse(Cur, frame.delay), frame.gap, r, frame.gap))
    /\ UNCHANGED session

\* the state after construction, one of the sessions about to open
InitFor(E) ==
    /\ Is(GameInit)
    /\ session \in {[gap |-> x.gap, rnd |-> x.rnd, spawn |-> x.spawn,
                     script |-> x.script, free |-> E.maxFree] :
                        x \in E.sessions}

-----------------------------------------------------------------------------
(* The player's run: hits, death, restart and the dash *)

\* bounds of the exploration
MaxTicksPlayer == 100
MaxFreePlayer == 1

\* Math.random() giving the middle of each range: no jitter, no pickup
Steady ==
    [jx |-> 0, jz |-> 0, gentle |-> FALSE, reload |-> 0,
     plife |-> 0, pickup |-> FALSE, upg |-> <<0, 0, 0>>, trail |-> FALSE]

\* spawn points on the edges the enemies come in from: in the far corner,
\* and where the line the player aims along once the mouse has moved 30
\* pixels right meets the edge in front and the edge behind
Corner == [x |-> 3500, z |-> -3500, t |-> 0, frac |-> 999, mesh |-> 0]
Ahead == [x |-> 210, z |-> -3500, t |-> 0, frac |-> 0, mesh |-> 0]
Behind == [x |-> -210, z |-> 3500, t |-> 0, frac |-> 0, mesh |-> 0]

Start == In("start", "", 0, 0)
Aim == In("move", "", 30, 0)
Press(code) == In("keydown", code, 0, 0)
Release(code) == In("keyup", code, 0, 0)

\* a display at 70 ms a frame, where the user steers and dashes; one slower
\* than the 100 ms cap on dt; a display at 50 ms where the enemies close in
\* on a player who stands still, and on one who fires a burst and dashes;
\* one where the player clears the wave, takes Quick Dash, dashes, clears
\* the next wave and waits on the upgrade screen; and one where the player
\* dashes with one hit left to take, is hit in the next frame or the one
\* after, restarts at once and dashes again
PlayerSessions ==
    {[gap |-> 70, rnd |-> {Steady}, spawn |-> {<<Corner>>},
      script |-> <<At(0, Start), At(1, In("move", "", 12, 0)),
                   At(1, Press("KeyW")), At(3, Press("Space")),
                   At(6, Release("KeyW"))>>],
     [gap |-> 130, rnd |-> {Steady}, spawn |-> {<<Corner>>},
      script |-> <<At(0, Start)>>],
     [gap |-> 50, rnd |-> {Steady}, spawn |-> {<<Ahead, Behind>>},
      script |-> <<At(0, Start), At(1, Aim)>>],
     [gap |-> 50, rnd |-> {Steady}, spawn |-> {<<Ahead, Behind>>},
      script |-> <<At(0, Start), At(1, Aim), At(33, In("down", "", 0, 0)),
                   At(37, In("up", "", 0, 0)), At(42, Press("Space"))>>],
     [gap |-> 50, rnd |-> {[Steady EXCEPT !.upg = <<6, 0, 0>>]},
      spawn |-> {<<Ahead, Behind>>},
      script |-> <<At(0, Start), At(1, Aim), At(1, In("down", "", 0, 0)),
                   At(2, In("card", "quickdash", 0, 0)), At(62, Press("Space")),
                   At(83, In("card", "bullettime", 0, 0))>>],
     [gap |-> 50, rnd |-> {Steady}, spawn |-> {<<Ahead, Behind>>},
      script |-> <<At(0, Start), At(1, Aim), At(71, Press("Space")),
                   At(72, In("restart", "", 0, 0)), At(72, Press("Space"))>>]}

EPlayer ==
    [sessions |-> PlayerSessions,
     free |-> {Press("Space"), In("restart", "", 0, 0)},
     maxFree |-> MaxFreePlayer, maxTicks |-> MaxTicksPlayer]

NextPlayer ==
    \/ StartClick(EPlayer)
    \/ RestartClick(EPlayer)
    \/ MouseMove(EPlayer)
    \/ MouseDown(EPlayer)
    \/ MouseUp(EPlayer)
    \/ KeyDown(EPlayer)
    \/ KeyUp(EPlayer)
    \/ CardClick(EPlayer)
    \/ FireTimer(EPlayer)
    \/ Frame(EPlayer)

SpecPlayer == InitFor(EPlayer) /\ [][NextPlayer]_vars

-----------------------------------------------------------------------------
(* The waves: the player keeps firing along the line the enemies come in   *)
(* on, and takes the upgrades offered between waves                        *)

MaxTicksArms == 225
MaxFreeArms == 1

\* where spawnEnemy draws the last of the types the wave allows, in front
\* and on the left edge
AheadLast == [x |-> 210, z |-> -3500, t |-> 999, frac |-> 0, mesh |-> 0]
AsideLast == [x |-> -3500, z |-> -2500, t |-> 999, frac |-> 0, mesh |-> 0]

Card(id) == In("card", id, 0, 0)

\* the player takes Piercing Rounds, then the Shotgun, against the heaviest
\* enemies each wave allows; or Piercing Rounds, Rapid Fire and, after a
\* pause on the upgrade screen, Heavy Caliber, against basic enemies
ArmsSessions ==
    {[gap |-> 33, rnd |-> {Steady}, spawn |-> {<<AheadLast, AsideLast>>},
      script |-> <<At(0, Start), At(1, Aim), At(1, In("down", "", 0, 0)),
                   At(2, Card("piercing")), At(2, Card("shotgun")),
                   At(100, In("up", "", 0, 0)),
                   At(203, In("down", "", 0, 0))>>],
     [gap |-> 33, rnd |-> {Steady}, spawn |-> {<<Ahead, Behind>>},
      script |-> <<At(0, Start), At(1, Aim), At(1, In("down", "", 0, 0)),
                   At(2, Card("piercing")), At(2, Card("rapidfire")),
                   At(205, Card("heavycaliber"))>>]}

EArms ==
    [sessions |-> ArmsSessions, free |-> {In("up", "", 0, 0)},
     maxFree |-> MaxFreeArms, maxTicks |-> MaxTicksArms]

NextArms ==
    \/ StartClick(EArms)
    \/ MouseMove(EArms)
    \/ MouseDown(EArms)
    \/ MouseUp(EArms)
    \/ CardClick(EArms)
    \/ FireTimer(EArms)
    \/ Frame(EArms)

SpecArms == InitFor(EArms) /\ [][NextArms]_vars

\* the events of one kind in the history of the last handler
Events(kind) == {k \in 1..Len(log) : log[k].ev = kind}

\* C3: player.health is never negative: damage that would take it below 0
\* leaves it at 0.
C3_HealthNeverNegative == player.health >= 0

\* C4: a playerHit(d) that finds the shield inactive takes exactly d off the
\* health, and ends the game (calls gameOver, which clears isRunning) if and
\* only if the health it leaves is at most 0.
C4_HitTakesDamageAndEndsAtZero ==
    /\ \A k \in Events("playerHit") :
          /\ log[k].after = log[k].before - log[k].damage
          /\ (log[k].after <= 0) <=>
                (k < Len(log) /\ log[k + 1].ev = "gameOver")
          /\ (log[k].after <= 0) => ~isRunning
    /\ \A k \in Events("playerHit") \ {Len(log)} :
          log[k + 1].ev = "playerHit" => log[k + 1].before = log[k].after
    /\ (Events("tick") # {} /\ Events("gameOver") = {}) => isRunning

\* a hit that leaves the player alive, at 100 less its damage or lower still
C4_HitSurvived ==
    \E k \in Events("playerHit") :
        /\ log[k].damage = 40
        /\ log[k].after > 0
        /\ player.health = log[k].after
        /\ isRunning

\* C5: tryDash with canDash false changes nothing: isDashing, dashVelocity,
\* dashCooldown and canDash keep their values, and no dash-end timer or
\* trail particle is scheduled.
C5_DashOnCooldownIsNoOp ==
    [][(/\ log' # <<>>
        /\ log'[1] = [ev |-> "keydown", code |-> "Space"]
        /\ isRunning /\ ~isSelectingUpgrade
        /\ ~player.canDash)
       => (player' = player /\ timers' = timers /\ particles' = particles)]_vars

\* Space went down in a running game while the dash was on cooldown
C5_DashRefused ==
    /\ log = <<[ev |-> "keydown", code |-> "Space"]>>
    /\ isRunning /\ ~isSelectingUpgrade
    /\ ~player.canDash
    /\ player.dashCooldown > 0

\* C6: dashCooldown is never negative: the countdown stops at exactly zero.
C6_DashCooldownNeverNegative == player.dashCooldown >= 0

\* C7 as written: once a dash has started a cooldown, canDash is false for
\* as long as the real time since the dash falls short of that cooldown, and
\* true from the first tick at which it reaches it.
C7_DashReadyOnlyAfterCooldown ==
    /\ ~player.canDash => hist.clockSinceDash < hist.dashStarted
    /\ (player.canDash /\ hist.dashStarted > 0) =>
          hist.clockSinceDash >= hist.dashStarted

\* C7: within one run of the game (no restartGame since the dash), canDash
\* is false for as long as the real time of the ticks that updated the game
\* since the dash (frames spent on the upgrade screen count for nothing)
\* falls short of the cooldown the dash started (2.0 s, or 1.2 s with Quick
\* Dash), and true from the first tick at which it reaches it; the time
\* counted is dt, not dt * timeScale.
C7_DashReadyAfterCooldownInRun ==
    /\ ~player.canDash => hist.sinceDash < hist.dashStarted
    /\ (player.canDash /\ hist.dashStarted > 0
          /\ hist.dashRun = hist.restarts) =>
          hist.sinceDash >= hist.dashStarted
    /\ hist.dashStarted \in {0, 1200, 2000}
    /\ (hist.dashStarted = 1200 /\ hist.dashRun = hist.restarts) =>
          Has(acquiredUpgrades, "quickdash")

\* the cooldown of a Quick Dash ran out, the frames spent on the upgrade
\* screen later than the clock would have it
C7_DashReadyAgain ==
    /\ player.canDash
    /\ hist.dashStarted = 1200
    /\ hist.dashRun = hist.restarts
    /\ hist.sinceDash >= 1200
    /\ hist.clockSinceDash >= hist.sinceDash + 330

\* C1: the wave counter advances exactly once for each wave batch, and only
\* in the destroyEnemy call that empties the enemies list: no batch advances
\* it more than once.
C1_WaveAdvancesOncePerBatch ==
    /\ \A b \in 1..Len(hist.advances) : hist.advances[b] <= 1
    /\ \A k \in Events("waveCleared") :
          k > 1 /\ log[k - 1].ev = "enemyDestroyed" /\ log[k - 1].enemy = log[k].by

\* the spawn timers of batch b that are still to fire
PendingSpawns(b) ==
    Cardinality({k \in 1..Len(timers) :
                    timers[k].kind = "spawnEnemy" /\ timers[k].a = b})

\* C2: a spawnWave that reads wave n adds exactly 3 + 2n enemies, one for
\* each of its staggered timers: what a batch has spawned and what it is
\* still to spawn always make up 3 + 2n, and each timer adds one new enemy.
C2_BatchSpawnsThreePlusTwoN ==
    /\ \A b \in 1..Len(hist.spawned) :
          hist.spawned[b] + PendingSpawns(b) = 3 + 2 * hist.sizes[b]
    /\ (log # <<>> /\ log[1].ev = "spawnEnemy") =>
          /\ enemies # <<>>
          /\ enemies[Len(enemies)].batch = log[1].batch
    /\ \A i, j \in 1..Len(enemies) : enemies[i].id = enemies[j].id => i = j

\* the spawnWave of wave 3 has spawned its nine enemies
C2_BatchComplete ==
    \E b \in 1..Len(hist.spawned) :
        /\ hist.sizes[b] = 3
        /\ hist.spawned[b] = 9
        /\ PendingSpawns(b) = 0

\* the damage events bullet id did in the last handler
HitsOf(id) == {m \in Events("damaged") : log[m].bullet = id}

\* C8: in one tick a piercing bullet damages every enemy it overlaps exactly
\* once, also when enemies are destroyed during its scan; a bullet that is
\* not piercing damages at most one enemy, the first it overlaps in reverse
\* order of the enemies list, and is removed in that tick.
C8_PiercingHitsEachOnce ==
    \A k \in Events("scan") :
        LET id == log[k].bullet
            first == CHOOSE n \in 1..Len(log[k].order) :
                        /\ log[k].order[n] \in log[k].overlap
                        /\ \A m \in 1..(n - 1) :
                              log[k].order[m] \notin log[k].overlap
        IN  /\ \A m \in HitsOf(id) : m > k /\ log[m].enemy \in log[k].overlap
            /\ log[k].piercing =>
                  \A e \in log[k].overlap :
                      Cardinality({m \in HitsOf(id) : log[m].enemy = e}) = 1
            /\ (~log[k].piercing /\ log[k].overlap = {}) => HitsOf(id) = {}
            /\ (~log[k].piercing /\ log[k].overlap # {}) =>
                  /\ Cardinality(HitsOf(id)) = 1
                  /\ \A m \in HitsOf(id) : log[m].enemy = log[k].order[first]
                  /\ \A n \in 1..Len(bullets) : bullets[n].id # id

\* a piercing bullet overlapped three enemies and went on to damage one
\* after another of them was destroyed
C8_PiercedThroughDestroyed ==
    \E k \in Events("scan") :
        /\ log[k].piercing
        /\ Cardinality(log[k].overlap) >= 3
        /\ \E m \in Events("enemyDestroyed") :
              /\ log[m].enemy \in log[k].overlap
              /\ \E n \in HitsOf(log[k].bullet) : n > m

\* C9: when an aggressive_homing bullet is within 0.8 of a player bullet at
\* its collision check, both are removed, exactly one player bullet is
\* consumed, the score grows by 50 * scoreMultiplier once however many
\* player bullets overlap, and the enemy bullet does not reach the player in
\* that tick.
C9_ShotDownOnce ==
    /\ \A k \in Events("canBeShot") :
          log[k].near # {} =>
              LET downs == {m \in Events("shotDown") :
                               log[m].bullet = log[k].bullet}
              IN  /\ Cardinality(downs) = 1
                  /\ \A m \in downs :
                        /\ m = k + 1
                        /\ log[m].by \in log[k].near
                        /\ log[m].had - log[m].left = 1
                        /\ log[m].scored = 50 * player.scoreMultiplier
                        /\ \A n \in 1..Len(bullets) : bullets[n].id # log[m].by
                  /\ \A m \in Events("reached") : log[m].bullet # log[k].bullet
                  /\ \A n \in 1..Len(enemyBullets) :
                        enemyBullets[n].id # log[k].bullet
    /\ \A m \in Events("shotDown") :
          m > 1 /\ log[m - 1].ev = "canBeShot" /\ log[m - 1].near # {}

\* an aggressive_homing bullet was shot down with three player bullets in
\* reach
C9_ShotDownAmongThree ==
    \E k \in Events("canBeShot") :
        /\ Cardinality(log[k].near) >= 3
        /\ k < Len(log)
        /\ log[k + 1].ev = "shotDown"

\* C10: once 'shotgun' is applied, every fire event adds exactly 7 bullets,
\* 0.15 apart and symmetric about the aim, and resets the fire cooldown to
\* the fire rate, which is 0.4 right after the upgrade.
C10_ShotgunFiresSeven ==
    /\ \A k \in Events("upgradeApplied") :
          log[k].id = "shotgun" =>
              /\ player.bulletCount = 7
              /\ player.bulletSpread = 150
              /\ player.fireRate = 400
    /\ Has(acquiredUpgrades, "shotgun") =>
          \A k \in Events("shoot") :
              /\ log[k].added = 7
              /\ log[k].angles = <<-450, -300, -150, 0, 150, 300, 450>>
              /\ log[k].cooldown = player.fireRate

\* the shotgun fired
C10_ShotgunFired ==
    /\ Has(acquiredUpgrades, "shotgun")
    /\ \E k \in Events("shoot") : log[k].added = 7 /\ log[k].cooldown = 400
    /\ Len(bullets) >= 7

-----------------------------------------------------------------------------
(* Time dilation: the pointer slows and speeds, the player takes Bullet     *)
(* Time+                                                                    *)

MaxTicksTime == 115
MaxFreeTime == 1

\* the pointer creeps: 2 pixels, the lower threshold
Creep == In("move", "", 2, 0)

\* at 33 ms a frame the player clears the wave, takes Bullet Time+, lets go
\* of the button and lets the pointer creep; at 70 ms a frame the pointer
\* sweeps 40 pixels and then creeps
TimeSessions ==
    {[gap |-> 33, rnd |-> {[Steady EXCEPT !.upg = <<5, 0, 0>>]},
      spawn |-> {<<Ahead, Behind>>},
      script |-> <<At(0, Start), At(1, Aim), At(1, In("down", "", 0, 0)),
                   At(2, Card("bullettime")), At(68, In("up", "", 0, 0)),
                   At(69, Creep)>>],
     [gap |-> 70, rnd |-> {Steady}, spawn |-> {<<Corner>>},
      script |-> <<At(0, Start), At(3, In("move", "", 40, 0)),
                   At(6, Creep)>>]}

ETime ==
    [sessions |-> TimeSessions, free |-> {Aim},
     maxFree |-> MaxFreeTime, maxTicks |-> MaxTicksTime]

NextTime ==
    \/ StartClick(ETime)
    \/ MouseMove(ETime)
    \/ MouseDown(ETime)
    \/ MouseUp(ETime)
    \/ CardClick(ETime)
    \/ FireTimer(ETime)
    \/ Frame(ETime)

SpecTime == InitFor(ETime) /\ [][NextTime]_vars

\* the last handler was a frame that updated the game
TickRan == Events("tick") # {}

\* C11: the target time scale a tick computes is the player's minTimeScale
\* when the pointer-speed average is at or below 2, and 1.0 when it is at or
\* above 30.
C11_TargetAtFloorAndCeiling ==
    TickRan =>
        /\ mouseVelocity <= 20 => targetTimeScale = player.minTimeScale
        /\ mouseVelocity >= 300 => targetTimeScale = 1000

\* a tick found the pointer creeping after Bullet Time+ was taken
C11_CreepingWithBulletTime ==
    /\ TickRan
    /\ mouseVelocity = 20
    /\ player.minTimeScale = 50
    /\ targetTimeScale = 50

\* C12: every tick moves timeScale toward the target and not past it: the
\* distance does not grow, the side does not change, and what is left of the
\* distance is at most the share 1 - min(1, 10 dt) of it (and one unit of
\* rounding), so that for a fixed dt it shrinks geometrically.
C12_SmoothingTowardTarget ==
    [][\A k \in 1..Len(log') :
          log'[k].ev = "tick" =>
              LET before == targetTimeScale' - timeScale
                  after == targetTimeScale' - timeScale'
                  share == 1000 - Min(1000, log'[k].dt * 10)
              IN  /\ Abs(after) <= Abs(before)
                  /\ before * after >= 0
                  /\ Abs(after) * 1000 <= Abs(before) * share + 1000]_vars

\* the time scale has come down from 1.0 to within 0.003 of the floor 0.05
C12_SettledAtFloor ==
    /\ TickRan
    /\ targetTimeScale = 50
    /\ timeScale <= 53
    /\ hist.lowest = timeScale

C14_StillPointerSlowsTime ==
    (TickRan /\ Recent(mouseHistory) = <<>>) =>
        /\ mouseVelocity = 0
        /\ targetTimeScale = player.minTimeScale

-----------------------------------------------------------------------------
(* Motion: the player steers, dashes and fires while the pointer speeds up  *)
(* and slows down                                                           *)

MaxTicksMotion == 30
MaxFreeMotion == 1

\* at 33 ms a frame the player runs forward, dashes, changes keys during the
\* dash, lets go and coasts while the enemies fire, the pointer sweeping and
\* then creeping; at 70 ms a frame the player fires at an enemy far away,
\* runs and dashes; at 100 ms a frame the player dashes with W and S held
\* and again with W and A, or with no key and again with all four keys
MotionSessions ==
    {[gap |-> 33, rnd |-> {Steady}, spawn |-> {<<Ahead, Behind>>},
      script |-> <<At(0, Start), At(1, Aim), At(1, Press("KeyW")),
                   At(3, Press("Space")), At(5, Release("KeyW")),
                   At(5, Press("KeyD")), At(6, Creep), At(7, Creep),
                   At(8, In("down", "", 0, 0)), At(12, Release("KeyD")),
                   At(14, Aim), At(16, In("up", "", 0, 0)), At(18, Creep)>>],
     [gap |-> 70, rnd |-> {Steady}, spawn |-> {<<Corner>>},
      script |-> <<At(0, Start), At(1, In("move", "", 12, 0)),
                   At(1, In("down", "", 0, 0)), At(2, Press("KeyA")),
                   At(4, Press("Space")), At(5, Release("KeyA")),
                   At(8, In("up", "", 0, 0)), At(9, Creep)>>],
     [gap |-> 100, rnd |-> {Steady}, spawn |-> {<<Corner>>},
      script |-> <<At(0, Start), At(1, In("move", "", 12, 0)),
                   At(1, Press("KeyW")), At(1, Press("KeyS")),
                   At(2, Press("Space")), At(3, Release("KeyS")),
                   At(3, Press("KeyA")), At(24, Press("Space"))>>],
     [gap |-> 100, rnd |-> {Steady}, spawn |-> {<<Corner>>},
      script |-> <<At(0, Start), At(1, In("move", "", -40, 0)),
                   At(2, Press("Space")), At(3, Press("KeyA")),
                   At(3, Press("KeyD")), At(3, Press("KeyW")),
                   At(3, Press("KeyS")), At(24, Press("Space")),
                   At(25, Release("KeyS")), At(25, Release("KeyA"))>>]}

EMotion ==
    [sessions |-> MotionSessions, free |-> {Aim, Press("Space"), Press("KeyS")},
     maxFree |-> MaxFreeMotion, maxTicks |-> MaxTicksMotion]

NextMotion ==
    \/ StartClick(EMotion)
    \/ MouseMove(EMotion)
    \/ MouseDown(EMotion)
    \/ MouseUp(EMotion)
    \/ KeyDown(EMotion)
    \/ KeyUp(EMotion)
    \/ FireTimer(EMotion)
    \/ Frame(EMotion)

SpecMotion == InitFor(EMotion) /\ [][NextMotion]_vars

\* the frame callback ran and updated the game, over dt milliseconds
FrameTick(dt) ==
    /\ frame.pending
    /\ \E k \in 1..Len(log') : log'[k].ev = "tick" /\ log'[k].dt = dt

\* position q is position p moved by velocity v over gameDt, kept within
\* bound of the centre on x and z
MovedBy(q, p, v, gameDt, bound) ==
    /\ q.x = Clamp(p.x + Move(v.x, gameDt), bound)
    /\ q.z = Clamp(p.z + Move(v.z, gameDt), bound)

\* C15: player updates depend on the real delta only.  Had the same frame
\* found any other pointer-speed average and any other time scale, with the
\* same keys, buttons and delta, it would have left the player's position,
\* velocity, dash cooldown and fire cooldown as it did; while every bullet
\* and every pursuing enemy that the frame keeps has moved by its velocity
\* times the delta times the time scale.
C15_PlayerOnRealTime ==
    [][\A dt \in 0..100 :
          FrameTick(dt) =>
              /\ \A mv \in {0, 100, 400} : \A scale \in {100, 400, 1000} :
                    \E r \in session.rnd :
                        LET Same(other) ==
                                /\ other.player.position = player'.position
                                /\ other.player.velocity = player'.velocity
                                /\ other.player.dashCooldown = player'.dashCooldown
                                /\ other.player.canDash = player'.canDash
                                /\ other.shootCooldown = shootCooldown'
                        IN  Same(gameLoop(
                                Elapse([Cur EXCEPT !.mouseVelocity = mv,
                                                   !.timeScale = scale],
                                       frame.delay),
                                frame.gap, r, frame.gap))
              /\ \A i \in 1..Len(enemyBullets') : \A j \in 1..Len(enemyBullets) :
                    enemyBullets'[i].id = enemyBullets[j].id =>
                        enemyBullets'[i].position =
                            VMove(enemyBullets[j].position,
                                  enemyBullets'[i].velocity, dt * timeScale')
              /\ \A i \in 1..Len(bullets') : \A j \in 1..Len(bullets) :
                    bullets'[i].id = bullets[j].id =>
                        bullets'[i].position =
                            VMove(bullets[j].position, bullets'[i].velocity,
                                  dt * timeScale')
              /\ \A i \in 1..Len(enemies') : \A j \in 1..Len(enemies) :
                    (enemies'[i].id = enemies[j].id /\ ~enemies[j].isTelegraphing) =>
                        MovedBy(enemies'[i].position, enemies[j].position,
                                enemies'[i].velocity, dt * timeScale',
                                arenaSize - 200)]_vars

\* a frame at a time scale below 0.5 left the player moving, the dash and the
\* gun cooling down, and bullets of both sides in flight
C15_MovingWhileTimeIsSlow ==
    /\ TickRan
    /\ timeScale < 500
    /\ VLength(player.velocity) > 0
    /\ ~player.canDash
    /\ shootCooldown > 0
    /\ enemyBullets # <<>>
    /\ bullets # <<>>

\* C16: a frame that finds no movement intent and no dash under way leaves
\* the horizontal velocity at 0.9 of what it was (to the unit of the fixed
\* point); a frame that finds the dash under way leaves the velocity equal
\* to dashVelocity, whatever keys are held.
C16_DampingAndDashOverride ==
    [][\A dt \in 0..100 :
          FrameTick(dt) =>
              /\ (VLength(KeyDir(keys)) = 0 /\ ~player.isDashing) =>
                    /\ Abs(10 * player'.velocity.x - 9 * player.velocity.x) < 10
                    /\ Abs(10 * player'.velocity.z - 9 * player.velocity.z) < 10
              /\ player.isDashing => player'.velocity = player.dashVelocity]_vars

\* a frame found the dash over and no movement key held, and left the
\* player coasting slower than the walking speed
C16_Coasting ==
    /\ TickRan
    /\ VLength(KeyDir(keys)) = 0
    /\ ~player.isDashing
    /\ hist.dashStarted > 0
    /\ VLength(player.velocity) > 100
    /\ VLength(player.velocity) < 1200

\* C17: the particle population never exceeds 150.
C17_ParticlesAtMost150 == Len(particles) <= 150

-----------------------------------------------------------------------------
(* The time shield and the bursts: the player takes Time Shield and stands  *)
(* still while fast enemies close in and fire bursts                        *)

MaxTicksShield == 110
MaxFreeShield == 0

\* at 50 ms a frame the player clears wave 1, takes Time Shield, lets go of
\* the button and stands under the bursts of the fast enemies that follow:
\* until the game is over, and then restarts at once; or lets the pointer
\* creep, sweeps it once and lets it creep again; or keeps firing until
\* frame 70, so that a bullet in flight destroys a fast enemy in the middle
\* of its burst; or, without the upgrade, keeps the pointer still, sweeps
\* it and lets it creep
ShieldSessions ==
    {[gap |-> 50, rnd |-> {[Steady EXCEPT !.upg = <<8, 0, 0>>]},
      spawn |-> {<<AheadLast, AsideLast>>},
      script |-> <<At(0, Start), At(1, Aim), At(1, In("down", "", 0, 0)),
                   At(2, Card("timeshield")), At(2, In("up", "", 0, 0)),
                   At(3, In("restart", "", 0, 0))>>],
     [gap |-> 50, rnd |-> {[Steady EXCEPT !.upg = <<8, 0, 0>>]},
      spawn |-> {<<AheadLast, AsideLast>>},
      script |-> <<At(0, Start), At(1, Aim), At(1, In("down", "", 0, 0)),
                   At(2, Card("timeshield")), At(2, In("up", "", 0, 0)),
                   At(94, Creep), At(97, Aim), At(98, Creep), At(99, Creep)>>],
     [gap |-> 50, rnd |-> {[Steady EXCEPT !.upg = <<8, 0, 0>>]},
      spawn |-> {<<AheadLast, AsideLast>>},
      script |-> <<At(0, Start), At(1, Aim), At(1, In("down", "", 0, 0)),
                   At(2, Card("timeshield")), At(70, In("up", "", 0, 0))>>],
     [gap |-> 50, rnd |-> {Steady}, spawn |-> {<<Corner>>},
      script |-> <<At(0, Start), At(4, Aim), At(8, Creep)>>]}

EShield ==
    [sessions |-> ShieldSessions, free |-> {},
     maxFree |-> MaxFreeShield, maxTicks |-> MaxTicksShield]

NextShield ==
    \/ StartClick(EShield)
    \/ RestartClick(EShield)
    \/ MouseMove(EShield)
    \/ MouseDown(EShield)
    \/ MouseUp(EShield)
    \/ CardClick(EShield)
    \/ FireTimer(EShield)
    \/ Frame(EShield)

SpecShield == InitFor(EShield) /\ [][NextShield]_vars

\* the setTimeout callback that runs in this step is a step of a burst
BurstFires ==
    /\ timers # <<>>
    /\ timers[NextTimer(timers)].kind = "burst"
    /\ Len(timers') = Len(timers) - 1

\* C18: a burst step whose enemy is no longer in the enemy collection adds
\* no bullet and changes nothing of the game; a step whose enemy is still
\* there adds exactly one enemy bullet, which is delayed_homing if and only
\* if the step is the fifth of its burst.
C18_BurstStepNeedsOwner ==
    [][BurstFires =>
          LET t == timers[NextTimer(timers)]
              last == enemyBullets'[Len(enemyBullets')]
          IN  IF \E k \in 1..Len(enemies) : enemies[k].id = t.a
              THEN /\ Len(enemyBullets') = Len(enemyBullets) + 1
                   /\ SubSeq(enemyBullets', 1, Len(enemyBullets)) = enemyBullets
                   /\ last.isEnemy
                   /\ last.bulletType = IF t.b.i = 4 THEN "delayed_homing"
                                        ELSE "standard"
              ELSE /\ enemyBullets' = enemyBullets
                   /\ bullets' = bullets
                   /\ enemies' = enemies
                   /\ player' = player
                   /\ screen' = screen]_vars

\* after a restart, a step of a burst begun before it found its enemy gone
C18_SkippedAfterRestart ==
    /\ hist.restarts > 0
    /\ Events("burstSkipped") # {}

\* C19: in a frame where the time shield is active, an enemy bullet that
\* reaches the player takes no health, ends no game, and is gone from the
\* enemy bullets when the frame returns.
C19_ShieldAbsorbsBullet ==
    [][\A dt \in 0..100 :
          (FrameTick(dt) /\ player'.timeShieldActive) =>
              \A k \in 1..Len(log') :
                  log'[k].ev = "reached" =>
                      /\ (\A m \in 1..Len(log') : log'[m].ev # "pickedUp")
                            => player'.health = player.health
                      /\ isRunning'
                      /\ hist'.gameOvers = hist.gameOvers
                      /\ \A i \in 1..Len(enemyBullets') :
                            enemyBullets'[i].id # log'[k].bullet]_vars

\* a frame in which an enemy bullet reached the player behind the shield
C19_BulletAbsorbed ==
    /\ TickRan
    /\ player.timeShieldActive
    /\ \E k \in 1..Len(log) : log[k].ev = "reached" /\ log[k].shield
    /\ isRunning

\* C20: from every arming the time shield stays active for 200 ms of real
\* time, and is not active after that.
C20_ShieldLastsFromEachArming ==
    /\ (hist.armings > 0 /\ hist.sinceArmed < 200) => player.timeShieldActive
    /\ hist.sinceArmed > 200 => ~player.timeShieldActive

\* C21: a step arms the time shield if and only if it is a tick of a player
\* who owns the time-shield upgrade, the time scale was above 0.3 before the
\* tick and is at or below 0.3 after it; a step that arms it leaves the
\* shield active with its timer set.
C21_ArmedOnDownwardCrossing ==
    [][LET Shields(q) == {k \in 1..Len(q) : q[k].kind = "shieldOff"}
       IN  /\ (hist'.armings # hist.armings) <=>
                  /\ \E k \in 1..Len(log') : log'[k].ev = "tick"
                  /\ player.timeShield
                  /\ timeScale > 300
                  /\ timeScale' <= 300
           /\ (hist'.armings # hist.armings) =>
                  /\ hist'.armings = hist.armings + 1
                  /\ player'.timeShieldActive
                  /\ Cardinality(Shields(timers'))
                        = Cardinality(Shields(timers)) + 1]_vars

\* the shield was armed, the scale rose above 0.3 and came down again, and
\* the tick that brought it down armed the shield a second time
C21_ArmedAgain ==
    /\ TickRan
    /\ Events("shieldArmed") # {}
    /\ hist.armings = 2
    /\ timeScale <= 300

-----------------------------------------------------------------------------
(* The snipers: the player shoots basic enemies up to wave 5 and walks     *)
(* forward until the spawn point in front is too close, so that the        *)
(* enemies come in on the left side of the arena, as snipers               *)

MaxTicksSniper == 260
MaxFreeSniper == 0

\* the player keeps firing at basic enemies that reload before they
\* shoot, takes Piercing Rounds, walks forward from frame 85 on, takes
\* Rapid Fire and Heavy Caliber, dashes and takes Seeker Rounds; or takes
\* Piercing Rounds and the Shotgun against the heaviest enemies each wave
\* allows
SniperSessions ==
    {[gap |-> 33, rnd |-> {Steady},
      spawn |-> {<<[Ahead EXCEPT !.frac = 999], AsideLast>>},
      script |-> <<At(0, Start), At(1, Aim), At(1, In("down", "", 0, 0)),
                   At(2, Card("piercing")), At(85, Press("KeyW")),
                   At(85, Card("rapidfire")), At(85, Card("heavycaliber")),
                   At(85, Press("Space")), At(85, Card("seeker"))>>],
     [gap |-> 33, rnd |-> {Steady}, spawn |-> {<<AheadLast, AsideLast>>},
      script |-> <<At(0, Start), At(1, Aim), At(1, In("down", "", 0, 0)),
                   At(2, Card("piercing")), At(2, Card("shotgun"))>>]}

ESniper ==
    [sessions |-> SniperSessions, free |-> {},
     maxFree |-> MaxFreeSniper, maxTicks |-> MaxTicksSniper]

NextSniper ==
    \/ StartClick(ESniper)
    \/ MouseMove(ESniper)
    \/ MouseDown(ESniper)
    \/ KeyDown(ESniper)
    \/ CardClick(ESniper)
    \/ FireTimer(ESniper)
    \/ Frame(ESniper)

SpecSniper == InitFor(ESniper) /\ [][NextSniper]_vars

\* C22: when a sniper's beam is resolved, a player who is in front of the
\* sniper and within 1.5 of the closest point of the aim ray, with the time
\* shield down, takes exactly 25 damage, and in every case the sniper's
\* telegraph is cleared
C22_BeamStrikesPlayerOnAimRay ==
    [][\A k \in 1..Len(log') :
          log'[k].ev = "beam" =>
              LET Sniper(q) == {e \in 1..Len(q) : q[e].id = log'[k].enemy}
                  start == enemies[CHOOSE e \in Sniper(enemies) : TRUE].position
                  aim == Normalize(VSub(player'.position, start))
                  toPlayer == VSub(player'.position, start)
                  OnRay(projection) ==
                      /\ projection > 0
                      /\ Within(VAdd(start, VScale(aim, projection, 1000)),
                                player'.position, 150)
              IN  /\ (/\ OnRay(Div(toPlayer.x * aim.x + toPlayer.y * aim.y
                                   + toPlayer.z * aim.z, 1000))
                      /\ ~log'[k].shield)
                        => \E m \in 1..Len(log') :
                              /\ log'[m].ev = "playerHit"
                              /\ log'[m].damage = 100
                              /\ log'[m].after = log'[m].before - 100
                  /\ \A e \in Sniper(enemies') :
                        /\ ~enemies'[e].isTelegraphing
                        /\ ~enemies'[e].telegraphLine]_vars

-----------------------------------------------------------------------------
(* The upgrades: the player keeps firing along the line the enemies come   *)
(* in on and takes a card from every offer until none is left              *)

MaxTicksUpgrades == 230
MaxFreeUpgrades == 0

\* where spawnEnemy draws the second type of three or four: basic enemies
\* in waves 1 and 2, fast ones from wave 3 on
AheadMid == [x |-> 210, z |-> -3500, t |-> 400, frac |-> 0, mesh |-> 0]

\* the player takes the eleven upgrades, the guns first, against basic
\* enemies, and restarts after the game is over; or takes the Score
\* Multiplier first, against fast enemies, with draws that offer cards from
\* the middle, the start and the end of the catalogue
UpgradeSessions ==
    {[gap |-> 33, rnd |-> {Steady}, spawn |-> {<<Ahead, Behind>>},
      script |-> <<At(0, Start), At(1, Aim), At(1, In("down", "", 0, 0)),
                   At(2, Card("piercing")), At(2, Card("rapidfire")),
                   At(2, Card("heavycaliber")), At(2, Card("seeker")),
                   At(2, Card("quickdash")), At(2, Card("shield")),
                   At(2, Card("timeshield")), At(2, Card("magnet")),
                   At(2, Card("scoremult")), At(2, Card("bullettime")),
                   At(2, Card("shotgun")), At(2, In("restart", "", 0, 0))>>],
     [gap |-> 33, rnd |-> {[Steady EXCEPT !.upg = <<3, 0, 10>>]},
      spawn |-> {<<AheadMid>>},
      script |-> <<At(0, Start), At(1, Aim), At(1, In("down", "", 0, 0)),
                   At(2, Card("scoremult")), At(2, Card("seeker")),
                   At(2, Card("rapidfire")), At(2, Card("heavycaliber")),
                   At(2, Card("piercing")), At(2, Card("magnet")),
                   At(2, Card("timeshield")), At(2, Card("shield")),
                   At(2, Card("quickdash")), At(2, Card("bullettime")),
                   At(2, Card("shotgun"))>>]}

EUpgrades ==
    [sessions |-> UpgradeSessions, free |-> {},
     maxFree |-> MaxFreeUpgrades, maxTicks |-> MaxTicksUpgrades]

NextUpgrades ==
    \/ StartClick(EUpgrades)
    \/ RestartClick(EUpgrades)
    \/ MouseMove(EUpgrades)
    \/ MouseDown(EUpgrades)
    \/ CardClick(EUpgrades)
    \/ FireTimer(EUpgrades)
    \/ Frame(EUpgrades)

SpecUpgrades == InitFor(EUpgrades) /\ [][NextUpgrades]_vars

\* C23: every offer made on a wave clear holds exactly min(3, number of
\* upgrades not yet acquired) entries, pairwise distinct, none of them
\* acquired
C23_OfferOfDistinctUnacquired ==
    [][\A k \in 1..Len(log') :
          log'[k].ev = "upgradeOffered" =>
              /\ Len(log'[k].list)
                    = Min(3, Len(UpgradeIds) - Len(acquiredUpgrades))
              /\ \A i, j \in 1..Len(log'[k].list) :
                    log'[k].list[i] = log'[k].list[j] => i = j
              /\ \A i \in 1..Len(log'[k].list) :
                    /\ Has(UpgradeIds, log'[k].list[i])
                    /\ ~Has(acquiredUpgrades, log'[k].list[i])
              /\ offered' = log'[k].list]_vars

\* an offer of two cards, when nine upgrades are acquired
C23_OfferOfTwo ==
    /\ Events("upgradeOffered") # {}
    /\ Len(acquiredUpgrades) = 9
    /\ Len(offered) = 2

\* C24: applying an upgrade records its id as acquired, an id that was not
\* acquired before; no offer holds an acquired id; the acquired list has no
\* duplicates and at most eleven ids
C24_AcquiredOnceAndNeverOfferedAgain ==
    [][/\ \A k \in 1..Len(log') :
             log'[k].ev = "upgradeApplied" =>
                 /\ ~Has(acquiredUpgrades, log'[k].id)
                 /\ acquiredUpgrades' = Append(acquiredUpgrades, log'[k].id)
       /\ \A k \in 1..Len(log') :
             log'[k].ev = "upgradeOffered" =>
                 \A i \in 1..Len(log'[k].list) :
                     ~Has(acquiredUpgrades', log'[k].list[i])
       /\ \A i \in 1..Len(offered') : ~Has(acquiredUpgrades', offered'[i])
       /\ \A i, j \in 1..Len(acquiredUpgrades') :
             acquiredUpgrades'[i] = acquiredUpgrades'[j] => i = j
       /\ Len(acquiredUpgrades') <= Len(UpgradeIds)]_vars

\* the eleventh upgrade has just been applied
C24_AllAcquired ==
    /\ Events("upgradeApplied") # {}
    /\ Len(acquiredUpgrades) = Len(UpgradeIds)

\* C25: when a wave is cleared with every upgrade acquired, no selection is
\* presented, isSelectingUpgrade is false once the clear is handled, and
\* the next wave is scheduled without any card being clicked
C25_NoSelectionWhenAllAcquired ==
    [][LET Waves(q) == {k \in 1..Len(q) : q[k].kind = "spawnWave"}
       IN  (/\ Len(acquiredUpgrades) = Len(UpgradeIds)
            /\ \E k \in 1..Len(log') : log'[k].ev = "waveCleared")
               => /\ ~isSelectingUpgrade'
                  /\ offered' = <<>>
                  /\ \A k \in 1..Len(log') : log'[k].ev # "upgradeOffered"
                  /\ Cardinality(Waves(timers'))
                        = Cardinality(Waves(timers)) + 1
                  /\ \E k \in Waves(timers') : timers'[k].delay = 1000]_vars

\* the wave that follows such a clear has been spawned, and cleared in its
\* turn
C25_ClearedAgainWhenAllAcquired ==
    /\ Len(acquiredUpgrades) = Len(UpgradeIds)
    /\ Events("waveCleared") # {}
    /\ ~isSelectingUpgrade
    /\ hist.spawnWaves >= 14

\* C26: on every tick each enemy a player bullet brings to health 0 or
\* below is removed in that tick, kills grows by one for it, and the score
\* by its base value (basic 100, fast 150, heavy 250, sniper 200) times the
\* score multiplier, next to the wave bonus and the bonus for bullets shot
\* down; no enemy is left with health 0 or below. score counts half points
\* and scoreMultiplier halves
C26_KillRemovesCountsAndScores ==
    [][(\E k \in 1..Len(log') : log'[k].ev = "tick") =>
          LET Killed(type) == {k \in 1..Len(log') :
                                  /\ log'[k].ev = "enemyDestroyed"
                                  /\ log'[k].type = type}
              Count(ev) == Cardinality({k \in 1..Len(log') : log'[k].ev = ev})
              base == 100 * Cardinality(Killed("basic"))
                      + 150 * Cardinality(Killed("fast"))
                      + 250 * Cardinality(Killed("heavy"))
                      + 200 * Cardinality(Killed("sniper"))
              bonus == 500 * wave' * Count("waveCleared")
                       + 50 * Count("shotDown")
          IN  /\ kills' = kills + Count("enemyDestroyed")
              /\ score' = score + (base + bonus) * player.scoreMultiplier
              /\ \A k \in 1..Len(log') :
                    log'[k].ev = "enemyDestroyed" =>
                        /\ log'[k].health <= 0
                        /\ \A e \in 1..Len(enemies') :
                              enemies'[e].id # log'[k].enemy
              /\ \A e \in 1..Len(enemies') : enemies'[e].health > 0]_vars

\* a fast enemy has just been destroyed with the score multiplier at 1.5
C26_FastKillWithMultiplier ==
    /\ TickRan
    /\ \E k \in Events("enemyDestroyed") : log[k].type = "fast"
    /\ player.scoreMultiplier = 3
    /\ kills >= 2

-----------------------------------------------------------------------------
(* The pickups: every enemy destroyed drops one; the player, hurt, walks   *)
(* up the line the enemies came in on and over the pickups                 *)

MaxTicksPickups == 530
MaxFreePickups == 0

\* every enemy destroyed drops a pickup (Math.random() below 0.25 in
\* destroyEnemy); the player shoots basic enemies up to wave 5 and, down to
\* 20 health, walks forward from frame 85 on: over all eight pickups, or
\* until frame 146, over four of them, and then stands among the snipers
\* while the other pickups run out; or takes the eleven upgrades, Shield
\* Boost among them, and restarts after the game is over
PickupSessions ==
    {[gap |-> 33, rnd |-> {[Steady EXCEPT !.pickup = TRUE]},
      spawn |-> {<<Ahead, AsideLast>>},
      script |-> <<At(0, Start), At(1, Aim), At(1, In("down", "", 0, 0)),
                   At(2, Card("piercing")), At(85, Press("KeyW")),
                   At(85, Card("rapidfire")), At(85, Card("heavycaliber")),
                   At(85, Press("Space")), At(85, Card("seeker"))>>],
     [gap |-> 33, rnd |-> {[Steady EXCEPT !.pickup = TRUE]},
      spawn |-> {<<Ahead, AsideLast>>},
      script |-> <<At(0, Start), At(1, Aim), At(1, In("down", "", 0, 0)),
                   At(2, Card("piercing")), At(85, Press("KeyW")),
                   At(85, Card("rapidfire")), At(85, Card("heavycaliber")),
                   At(85, Press("Space")), At(85, Card("bullettime")),
                   At(146, Release("KeyW"))>>],
     [gap |-> 33, rnd |-> {Steady}, spawn |-> {<<Ahead, Behind>>},
      script |-> <<At(0, Start), At(1, Aim), At(1, In("down", "", 0, 0)),
                   At(2, Card("piercing")), At(2, Card("rapidfire")),
                   At(2, Card("heavycaliber")), At(2, Card("seeker")),
                   At(2, Card("quickdash")), At(2, Card("shield")),
                   At(2, Card("timeshield")), At(2, Card("magnet")),
                   At(2, Card("scoremult")), At(2, Card("bullettime")),
                   At(2, Card("shotgun")), At(2, In("restart", "", 0, 0))>>]}

EPickups ==
    [sessions |-> PickupSessions, free |-> {},
     maxFree |-> MaxFreePickups, maxTicks |-> MaxTicksPickups]

NextPickups ==
    \/ StartClick(EPickups)
    \/ RestartClick(EPickups)
    \/ MouseMove(EPickups)
    \/ MouseDown(EPickups)
    \/ KeyDown(EPickups)
    \/ KeyUp(EPickups)
    \/ CardClick(EPickups)
    \/ FireTimer(EPickups)
    \/ Frame(EPickups)

SpecPickups == InitFor(EPickups) /\ [][NextPickups]_vars

\* C27: health never exceeds maxHealth; on a tick every pickup collected
\* sets health to min(maxHealth, health + 25), in the order collected and
\* after the hits of that tick; a pickup that runs out changes nothing; and
\* at the end of the tick no pickup is left that is within pickupRange of
\* the player or has no life left. health counts quarter points
C27_PickupHealsUpToMaxHealth ==
    [][/\ player'.health <= player'.maxHealth
       /\ (\E k \in 1..Len(log') : log'[k].ev = "tick") =>
             LET Of(ev) == {k \in 1..Len(log') : log'[k].ev = ev}
                 Last(S) == CHOOSE k \in S : \A m \in S : m <= k
                 First(S) == CHOOSE k \in S : \A m \in S : k <= m
                 After(k) == {m \in Of("pickedUp") : m > k}
                 Next(k) == IF After(k) = {} THEN player'.health
                            ELSE log'[First(After(k))].before
                 hurt == IF Of("playerHit") = {} THEN player.health
                         ELSE log'[Last(Of("playerHit"))].after
             IN  /\ player'.maxHealth = player.maxHealth
                 /\ Of("pickedUp") = {} => player'.health = hurt
                 /\ Of("pickedUp") # {}
                       => log'[First(Of("pickedUp"))].before = hurt
                 /\ \A k \in Of("pickedUp") :
                       Next(k) = Min(player.maxHealth, log'[k].before + 100)
                 /\ Len(pickups') <= Len(pickups) + Cardinality(Of("enemyDestroyed"))
                                     - Cardinality(Of("pickedUp"))
                                     - Cardinality(Of("pickupExpired"))
                 /\ \A i \in 1..Len(pickups') :
                       /\ pickups'[i].life > 0
                       /\ ~Within(pickups'[i].position, player'.position,
                                  player'.pickupRange)]_vars

\* a pickup collected at 95 health has healed the player to 100, not 120
C27_HealedToFull ==
    /\ TickRan
    /\ \E k \in Events("pickedUp") :
          /\ log[k].before < player.maxHealth
          /\ log[k].before + 100 > player.maxHealth
    /\ player.health = player.maxHealth

\* C28: an enemy spawned is fast only when wave is 2 or more, heavy only
\* when it is 3 or more, a sniper only when it is 5 or more; while wave is
\* 1 every enemy spawned is basic
C28_TypesUnlockedByWave ==
    [][(\E k \in 1..Len(log') : log'[k].ev = "spawnEnemy") =>
          LET enemy == enemies'[Len(enemies')]
          IN  /\ Len(enemies') = Len(enemies) + 1
              /\ enemy.type \in {"basic", "fast", "heavy", "sniper"}
              /\ enemy.type = "fast" => wave' >= 2
              /\ enemy.type = "heavy" => wave' >= 3
              /\ enemy.type = "sniper" => wave' >= 5
              /\ wave' = 1 => enemy.type = "basic"]_vars

\* a sniper has just been spawned, in wave 5
C28_SniperInWaveFive ==
    /\ Events("spawnEnemy") # {}
    /\ enemies # <<>>
    /\ enemies[Len(enemies)].type = "sniper"
    /\ wave = 5

\* C29: on a tick on which an enemy is telegraphing it keeps its position,
\* its velocity and its shootTimer and starts no attack (an attack reloads
\* shootTimer): its telegraph
\* timer runs down by the dilated time of the tick and its aim follows the
\* player, and when the timer is at 0 or below, and only then, its beam is
\* resolved and the telegraph ends
C29_TelegraphingEnemyOnlyTelegraphs ==
    [][\A t \in {k \in 1..Len(log') : log'[k].ev = "tick"} :
          \A e \in 1..Len(enemies) : \A f \in 1..Len(enemies') :
              (enemies[e].isTelegraphing /\ enemies'[f].id = enemies[e].id) =>
                  LET old == enemies[e]
                      new == enemies'[f]
                      time == old.telegraphTime - log'[t].dt * timeScale'
                      aim == Normalize(VSub(player'.position, old.position))
                      fired == \E k \in 1..Len(log') :
                                  /\ log'[k].ev = "beam"
                                  /\ log'[k].enemy = old.id
                  IN  /\ new.position = old.position
                      /\ new.velocity = old.velocity
                      /\ new.shootTimer = old.shootTimer
                      /\ new.telegraphTime = time
                      /\ fired <=> time <= 0
                      /\ new.isTelegraphing <=> ~fired
                      /\ new.telegraphLine <=> ~fired
                      /\ ~fired => new.telegraphDirection = aim]_vars

\* a sniper half way through its telegraph
C29_MidTelegraph ==
    /\ TickRan
    /\ \E e \in 1..Len(enemies) :
          /\ enemies[e].isTelegraphing
          /\ enemies[e].telegraphTime < 250000
          /\ enemies[e].telegraphTime > 0

-----------------------------------------------------------------------------
(* The bursts: fast enemies that come in at the edge and live to fire       *)
(* the fifth bullet of their burst                                         *)

MaxTicksHoming == 330
MaxFreeHoming == 0

\* the spawn point on the front edge, on the line the player aims along,
\* with the type drawn from the middle: basic in wave 1, fast in waves 2
\* to 4
FarMid == [x |-> 210, z |-> -3500, t |-> 500, frac |-> 0, mesh |-> 0]

\* the centre bullet of every spread homes gently (Math.random() below 0.2
\* in shootSpread); the player clears wave 1, takes Seeker Rounds and
\* stops firing after frame 66 while the fast enemies of wave 2 shoot their
\* bursts, with the pointer still, or creeping from frame 101 on so that
\* time runs at a tenth
HomingSessions ==
    {[gap |-> 33, rnd |-> {[Steady EXCEPT !.gentle = TRUE]}, spawn |-> {<<FarMid>>},
      script |-> <<At(0, Start), At(1, Aim), At(1, In("down", "", 0, 0)),
                   At(2, Card("seeker")), At(66, In("up", "", 0, 0))>>],
     [gap |-> 33, rnd |-> {[Steady EXCEPT !.gentle = TRUE]}, spawn |-> {<<FarMid>>},
      script |-> <<At(0, Start), At(1, Aim), At(1, In("down", "", 0, 0)),
                   At(2, Card("seeker")), At(66, In("up", "", 0, 0)),
                   At(101, Creep)>>]}

EHoming ==
    [sessions |-> HomingSessions, free |-> {},
     maxFree |-> MaxFreeHoming, maxTicks |-> MaxTicksHoming]

NextHoming ==
    \/ StartClick(EHoming)
    \/ MouseMove(EHoming)
    \/ MouseDown(EHoming)
    \/ MouseUp(EHoming)
    \/ CardClick(EHoming)
    \/ FireTimer(EHoming)
    \/ Frame(EHoming)

SpecHoming == InitFor(EHoming) /\ [][NextHoming]_vars

C31_SteerKeepsMagnitude ==
    [][/\ \A k \in 1..Len(bullets') : \A m \in 1..Len(bullets) :
             bullets'[k].id = bullets[m].id =>
                 Abs(VLength(bullets'[k].velocity)
                        - VLength(bullets[m].velocity)) <= 5
       /\ \A k \in 1..Len(enemyBullets') : \A m \in 1..Len(enemyBullets) :
             enemyBullets'[k].id = enemyBullets[m].id =>
                 Abs(VLength(enemyBullets'[k].velocity)
                        - VLength(enemyBullets[m].velocity)) <= 5]_vars

\* C32: after every tick each bullet held in either collection has life
\* left and lies within 40 of the centre on x and z; and every bullet the
\* tick keeps has lost the tick's dilated delta of its life of at most 5 s,
\* a delta that is positive whenever the real delta is, so that under ticks
\* with a positive delta no bullet stays for ever
C32_BulletsAliveInsideAndAgeing ==
    [][TickRan' =>
          LET dt == log'[CHOOSE k \in 1..Len(log') : log'[k].ev = "tick"].dt
              gameDt == dt * timeScale'
              Held(b) == /\ b.life > 0
                         /\ b.life <= 5000000
                         /\ Abs(b.position.x) <= 4000
                         /\ Abs(b.position.z) <= 4000
          IN  /\ dt > 0 => gameDt > 0
              /\ \A k \in 1..Len(bullets') : Held(bullets'[k])
              /\ \A k \in 1..Len(enemyBullets') : Held(enemyBullets'[k])
              /\ \A k \in 1..Len(bullets') : \A m \in 1..Len(bullets) :
                    bullets'[k].id = bullets[m].id =>
                        bullets'[k].life = bullets[m].life - gameDt
              /\ \A k \in 1..Len(enemyBullets') :
                    \A m \in 1..Len(enemyBullets) :
                        enemyBullets'[k].id = enemyBullets[m].id =>
                            enemyBullets'[k].life
                                = enemyBullets[m].life - gameDt]_vars

\* a tick has left a bullet of an enemy, inside the arena by more than a
\* frame's flight, with less life than the next frame takes, and younger
\* bullets of both sides in flight
C32_BulletOnItsLastTick ==
    /\ TickRan
    /\ timeScale = 1000
    /\ \E k \in 1..Len(enemyBullets) :
          /\ enemyBullets[k].life < 33000
          /\ Abs(enemyBullets[k].position.x) < 3900
          /\ Abs(enemyBullets[k].position.z) < 3900
    /\ \E k \in 1..Len(enemyBullets) : enemyBullets[k].life > 4000000
    /\ bullets # <<>>

\* C33: while the upgrade choice that follows a wave clear is open no
\* spawnWave is scheduled; the step that resolves it, by a card or because
\* no upgrade is left, leaves exactly one spawnWave scheduled
C33_OneSpawnWaveAfterTheChoice ==
    [][LET Scheduled == {k \in 1..Len(timers') : timers'[k].kind = "spawnWave"}
           Resolved ==
               \/ \E k \in 1..Len(log') : log'[k].ev = "upgradeApplied"
               \/ /\ \E k \in 1..Len(log') : log'[k].ev = "waveCleared"
                  /\ ~isSelectingUpgrade'
       IN  /\ isSelectingUpgrade' => Scheduled = {}
           /\ Resolved => Cardinality(Scheduled) = 1]_vars

\* C34: a dash that starts with no movement key held, or with keys that
\* cancel, goes forward, along (0, 0, -1) turned by the player's yaw; and
\* every dash that starts has a dash velocity of magnitude 50, to within a
\* tenth, never zero
C34_DashForwardWithoutDirection ==
    [][\A k \in 1..Len(log') :
          log'[k].ev = "dash" =>
              /\ player'.isDashing
              /\ KeyDir(keys') = Zero3 =>
                    player'.dashVelocity
                        = VScale(RotateY(Vec(0, 0, -1000), player'.rotation.y),
                                 5000, 1000)
              /\ player'.dashVelocity # Zero3
              /\ Abs(VLength(player'.dashVelocity) - 5000) <= 10]_vars

\* a dash has started with W and S both held and the player turned
C34_DashedWithOpposingKeys ==
    /\ Events("dash") # {}
    /\ {"KeyW", "KeyS"} \subseteq keys
    /\ KeyDir(keys) = Zero3
    /\ player.rotation.y # 0
    /\ player.dashVelocity.x # 0
    /\ player.dashVelocity.z < 0

\* C35: gameOver fires once in a run: the handler in which it fires fires
\* it once, scores and destroys nothing after it and ends with the score it
\* surfaced; and while the game-over screen is up the score, the kills and
\* the wave counter stay as they are and gameOver does not fire
C35_GameOverOnceWithFinalScore ==
    [][/\ \A k \in 1..Len(log') :
             log'[k].ev = "gameOver" =>
                 /\ log'[k].score = score'
                 /\ \A m \in 1..Len(log') :
                       /\ log'[m].ev = "gameOver" => m = k
                       /\ log'[m].ev \in {"enemyDestroyed", "waveCleared",
                                          "shotDown"} => m < k
       /\ (screen = "gameover" /\ screen' = "gameover") =>
             /\ score' = score
             /\ kills' = kills
             /\ wave' = wave
             /\ hist'.gameOvers = hist.gameOvers]_vars

\* C36: the frames resume after a restart: a run that restartGame has
\* started has its next frame requested for as long as it is running, so
\* that gameLoop is called again and updates the restarted run
C36_FrameRequestedAfterRestart ==
    (hist.restarts > 0 /\ isRunning) => frame.pending

\* C38: timers set before a restart have no effect on the restarted run:
\* after restartGame every enemy added while the wave counter is 1 comes
\* from the spawnWave call restartGame made, which adds 5 enemies and no
\* more, and no spawnWave call set before the restart runs
C38_OnlyRestartSpawnsInWaveOne ==
    [][(hist'.restarts > 0 /\ hist'.restarts = hist.restarts) =>
          /\ \A k \in 1..Len(log') :
                (log'[k].ev = "spawnEnemy" /\ log'[k].wave = 1) =>
                    log'[k].batch = hist'.restartBatch
          /\ \A k \in 1..Len(log') :
                ~(log'[k].ev = "spawnWave" /\ log'[k].wave = 1)
          /\ hist'.spawned[hist'.restartBatch] <= 5]_vars

\* C39: in every reachable state isDashing implies that canDash is false:
\* no dash can start while the velocity override of an earlier dash is in
\* effect and the timer that ends it is pending
C39_DashingImpliesNotReady ==
    player.isDashing => ~player.canDash

\* C37: while the upgrade selection is pending the simulation is frozen:
\* no step taken with isSelectingUpgrade true before and after it, a frame,
\* a timer or an input, changes the enemies, the bullets of either side,
\* the pickups, the particles, the player's position or health, the score
\* or the time scale
C37_FrozenWhileSelecting ==
    [][(isSelectingUpgrade /\ isSelectingUpgrade') =>
          /\ enemies' = enemies
          /\ bullets' = bullets
          /\ enemyBullets' = enemyBullets
          /\ pickups' = pickups
          /\ particles' = particles
          /\ player'.position = player.position
          /\ player'.health = player.health
          /\ score' = score
          /\ timeScale' = timeScale]_vars

=============================================================================
